---- MODULE Spec2Model ----
(***************************************************************************)
(* A model of the lilibet-backend tutoring engine: the learning-mode       *)
(* classifier, the model selector, the canned responses, the two revisions *)
(* of processLearningInteraction kept in learningEngine.js, and the        *)
(* /api/tutor handlers of the three server revisions.                      *)
(*                                                                         *)
(* Messages are strings.  String functions of the source (toLowerCase,     *)
(* includes, RegExp.test) are computed on the characters of the string.    *)
(***************************************************************************)
EXTENDS Integers, Sequences, FiniteSets, TLC

VARIABLES
    openaiClient,   \* learningEngine.js `openaiClient`: TRUE when initialised, FALSE when null
    claudeClient,   \* learningEngine.js `claudeClient`
    nodeEnvDev,     \* process.env.NODE_ENV === 'development'
    engine,         \* which revision of learningEngine.js is loaded: "v1" or "v2"
    call,           \* the processLearningInteraction invocation (locals, position, result)
    http,           \* the /api/tutor request being served (handler, position, reply)
    upstream,       \* the upstream requests issued so far, in order
    logged,         \* the error texts written with console.error
    pure,           \* an application of a pure function: its arguments and its result
    sessions,       \* concurrent processLearningInteraction calls: the locals of each,
                    \* the requests it issued and the outcomes it received
    auth,            \* which revision of auth.js is loaded: "parent" or "mentor"
    db,             \* the database of auth.js: users, links and conversations
    requests,       \* the requests to the handlers of auth.js, each with its position
    history         \* which links were accepted and which were removed

\* the variables a single tutoring request or application leaves alone
apartVars == <<sessions, auth, db, requests, history>>

vars == <<openaiClient, claudeClient, nodeEnvDev, engine, call, http, upstream, logged, pure,
          apartVars>>

-----------------------------------------------------------------------------
(* Bounds *)

\* The longest message, counted in fragments of the vocabulary below.
MaxFrags == 2

\* The longest conversation history sent with a request.
MaxHistory == 12

\* The number of processLearningInteraction calls in flight together.
MaxCalls == 2

\* The most accounts and the most conversations the database holds, and the
\* number of requests to auth.js in flight together.
MaxUsers == 3
MaxConversations == 1
MaxRequests == 2

-----------------------------------------------------------------------------
(* Strings *)

UpperChars == "ABCDEFGHIJKLMNOPQRSTUVWXYZ"
LowerChars == "abcdefghijklmnopqrstuvwxyz"
DigitChars == "0123456789"

CharAt(s, i) == SubSeq(s, i, i)

CharsOf(s) == { CharAt(s, i) : i \in 1..Len(s) }

\* String.prototype.toLowerCase on one character
LowerChar(ch) ==
    IF \E i \in 1..Len(UpperChars) : CharAt(UpperChars, i) = ch
    THEN CharAt(LowerChars, CHOOSE i \in 1..Len(UpperChars) : CharAt(UpperChars, i) = ch)
    ELSE ch

RECURSIVE toLowerCase(_)
toLowerCase(s) ==
    IF Len(s) = 0 THEN ""
    ELSE LowerChar(CharAt(s, 1)) \o toLowerCase(SubSeq(s, 2, Len(s)))

\* k occurs in s at position i
At(s, k, i) ==
    /\ i >= 1
    /\ i + Len(k) - 1 <= Len(s)
    /\ SubSeq(s, i, i + Len(k) - 1) = k

\* String.prototype.includes
includes(s, k) == \E i \in 1..(Len(s) + 1) : At(s, k, i)

\* the regular expression class \w
WordChars == CharsOf(UpperChars) \cup CharsOf(LowerChars) \cup CharsOf(DigitChars) \cup {"_"}

IsWordAt(s, i) == i >= 1 /\ i <= Len(s) /\ CharAt(s, i) \in WordChars

\* the regular expression assertion \b, before the character at position i
Boundary(s, i) == IsWordAt(s, i - 1) # IsWordAt(s, i)

\* /^(k)/
StartsWith(s, k) == At(s, k, 1)

\* /^(k)\b/
StartsWithWord(s, k) == At(s, k, 1) /\ Boundary(s, Len(k) + 1)

\* /\b(k)\b/
HasWord(s, k) ==
    \E i \in 1..(Len(s) + 1) : At(s, k, i) /\ Boundary(s, i) /\ Boundary(s, i + Len(k))

\* /\b(k)/
HasWordStart(s, k) == \E i \in 1..(Len(s) + 1) : At(s, k, i) /\ Boundary(s, i)

\* the characters the regular expression `.` does not match
LineTerminators == {"\n", "\r"}

\* /\b(a.*b)\b/
HasWordGap(s, a, b) ==
    \E i \in 1..(Len(s) + 1) : \E j \in 1..(Len(s) + 1) :
        /\ At(s, a, i) /\ Boundary(s, i)
        /\ j >= i + Len(a)
        /\ At(s, b, j) /\ Boundary(s, j + Len(b))
        /\ \A k \in (i + Len(a))..(j - 1) : CharAt(s, k) \notin LineTerminators

-----------------------------------------------------------------------------
(* The messages the model draws its inputs from: every concatenation of at *)
(* most MaxFrags fragments.  The fragments cover each keyword group, upper *)
(* case, a keyword inside a longer word, white space and no keyword.       *)

Fragments ==
    { " ", "What is ", "WHY", "solve this", "wonder", "contest", "Review",
      "my homework", "explain", "what if ", "how can i ", "42" }

RECURSIVE MessagesUpTo(_)
MessagesUpTo(n) ==
    IF n = 0 THEN {""}
    ELSE LET shorter == MessagesUpTo(n - 1)
         IN  shorter \cup { m \o f : m \in shorter, f \in Fragments }

Messages == MessagesUpTo(MaxFrags)

-----------------------------------------------------------------------------
(* learningEngine.js: the mode classifier *)

\* the closed set of learning modes
LearningModes == {"discovery", "practice", "explanation", "challenge", "review"}

ExplanationKeywords == {"what is", "how does", "why", "tell me about", "explain"}
PracticeKeywords == {"practice", "solve", "calculate", "exercise", "problem", "work through"}
DiscoveryKeywords == {"wonder", "curious", "explore", "discover", "learn about"}
ChallengeKeywords == {"challenge", "test", "quiz", "hard", "difficult"}
ReviewKeywords == {"review", "remember", "recap", "summarize", "go over"}

includesAny(msg, keywords) == \E k \in keywords : includes(msg, k)

\* detectLearningMode with the first group answering with the intent name of the server
detectLearningMode_IntentName(message) ==
    LET msg == toLowerCase(message)
    IN  IF includesAny(msg, ExplanationKeywords) THEN "concept_explanation"
        ELSE IF includesAny(msg, PracticeKeywords) THEN "practice"
        ELSE IF includesAny(msg, DiscoveryKeywords) THEN "discovery"
        ELSE IF includesAny(msg, ChallengeKeywords) THEN "challenge"
        ELSE IF includesAny(msg, ReviewKeywords) THEN "review"
        ELSE "discovery"

\* detectLearningMode with the practice group tested before the explanation group
detectLearningMode_PracticeFirst(message) ==
    LET msg == toLowerCase(message)
    IN  IF includesAny(msg, PracticeKeywords) THEN "practice"
        ELSE IF includesAny(msg, ExplanationKeywords) THEN "explanation"
        ELSE IF includesAny(msg, DiscoveryKeywords) THEN "discovery"
        ELSE IF includesAny(msg, ChallengeKeywords) THEN "challenge"
        ELSE IF includesAny(msg, ReviewKeywords) THEN "review"
        ELSE "discovery"

\* detectLearningMode with the default of the server's intent classifier
detectLearningMode_PracticeDefault(message) ==
    LET msg == toLowerCase(message)
    IN  IF includesAny(msg, ExplanationKeywords) THEN "explanation"
        ELSE IF includesAny(msg, PracticeKeywords) THEN "practice"
        ELSE IF includesAny(msg, DiscoveryKeywords) THEN "discovery"
        ELSE IF includesAny(msg, ChallengeKeywords) THEN "challenge"
        ELSE IF includesAny(msg, ReviewKeywords) THEN "review"
        ELSE "practice"

detectLearningMode(message) ==
    LET msg == toLowerCase(message)
    IN  IF includesAny(msg, ExplanationKeywords) THEN "explanation"
        ELSE IF includesAny(msg, PracticeKeywords) THEN "practice"
        ELSE IF includesAny(msg, DiscoveryKeywords) THEN "discovery"
        ELSE IF includesAny(msg, ChallengeKeywords) THEN "challenge"
        ELSE IF includesAny(msg, ReviewKeywords) THEN "review"
        ELSE "discovery"

-----------------------------------------------------------------------------
(* server.js: the intent classifier *)

conceptPatterns(lowerMessage) ==
    \/ \E k \in {"what is", "what are", "can you describe", "can you explain",
                 "tell me about", "explain", "describe"} : StartsWith(lowerMessage, k)
    \/ \E k \in {"how does", "how do", "why does", "why do"} : StartsWith(lowerMessage, k)
    \/ HasWordGap(lowerMessage, "what", "mean")
    \/ \E k \in {"define", "definition"} : HasWord(lowerMessage, k)
    \/ \E k \in {"concept of", "theory of", "principle of"} : HasWord(lowerMessage, k)
    \/ \E k \in {"i don't understand", "i'm confused about"} : StartsWith(lowerMessage, k)
    \/ HasWordGap(lowerMessage, "describe", "to me")
    \/ HasWordGap(lowerMessage, "explain", "to me")
    \/ \E k \in {"what exactly is", "what specifically is"} : StartsWith(lowerMessage, k)

homeworkPatterns(lowerMessage) ==
    \/ \E k \in {"homework", "assignment", "teacher", "class", "school"} :
           HasWord(lowerMessage, k)
    \/ \E k \in {"help me solve", "help me with", "help me figure out"} :
           HasWordStart(lowerMessage, k)
    \/ \E k \in {"i'm stuck", "i need help", "can you help"} : HasWordStart(lowerMessage, k)
    \/ \E k \in {"my problem is", "this problem", "solve this"} : HasWord(lowerMessage, k)
    \/ \E k \in {"for my", "due tomorrow", "assignment"} : HasWord(lowerMessage, k)

explorationPatterns(lowerMessage) ==
    \/ \E k \in {"how can i", "how could i", "how might i"} : HasWordStart(lowerMessage, k)
    \/ \E k \in {"what if", "suppose", "imagine"} : HasWordStart(lowerMessage, k)
    \/ \E k \in {"experiment", "investigate", "explore", "research"} :
           HasWord(lowerMessage, k)
    \/ \E k \in {"project", "study", "learn more about"} : HasWord(lowerMessage, k)

directQuestion(lowerMessage) ==
    \E k \in {"what", "how", "why", "when", "where"} : StartsWithWord(lowerMessage, k)

detectIntent(message) ==
    LET lowerMessage == toLowerCase(message)
    IN  IF conceptPatterns(lowerMessage) THEN "concept_explanation"
        ELSE IF homeworkPatterns(lowerMessage) THEN "homework_help"
        ELSE IF explorationPatterns(lowerMessage) THEN "exploration"
        ELSE IF directQuestion(lowerMessage) THEN "concept_explanation"
        ELSE "homework_help"

-----------------------------------------------------------------------------
(* learningEngine.js: the model selector and the canned responses *)

\* selectOptimalModel without the tests of the availability flags one by one
selectOptimalModel_ModeOnly(mode, hasOpenAI, hasClaude) ==
    IF ~hasOpenAI /\ ~hasClaude THEN "none"
    ELSE CASE mode \in {"explanation", "discovery"} -> "claude"
           [] mode \in {"practice", "challenge", "review"} -> "openai"
           [] OTHER -> "openai"

\* selectOptimalModel with the preference for claude lost when both are available
selectOptimalModel_PreferOpenAI(mode, hasOpenAI, hasClaude) ==
    IF ~hasOpenAI /\ hasClaude THEN "claude"
    ELSE IF hasOpenAI /\ ~hasClaude THEN "openai"
    ELSE IF ~hasOpenAI /\ ~hasClaude THEN "none"
    ELSE CASE mode \in {"discovery"} -> "claude"
           [] OTHER -> "openai"

selectOptimalModel(mode, hasOpenAI, hasClaude) ==
    IF ~hasOpenAI /\ hasClaude THEN "claude"
    ELSE IF hasOpenAI /\ ~hasClaude THEN "openai"
    ELSE IF ~hasOpenAI /\ ~hasClaude THEN "none"
    ELSE CASE mode \in {"explanation", "discovery"} -> "claude"
           [] mode \in {"practice", "challenge", "review"} -> "openai"
           [] OTHER -> "openai"

fallbacks ==
    [ discovery |-> "That's a great question! Let me help you explore this. What do you already know about this topic? What makes you curious about it?",
      practice |-> "Let's work through this step by step. First, can you tell me what part you'd like to practice? We'll start simple and build up your skills!",
      explanation |-> "I'd love to explain this to you! While I'm having some technical difficulties, let's think about it together. What specific part would you like to understand better?",
      challenge |-> "You're ready for a challenge! Here's something to think about: How would you approach solving this type of problem? What strategies have worked for you before?",
      review |-> "Let's review what we've learned. Can you tell me what you remember about this topic? What parts were most interesting or confusing?" ]

getFallbackResponse(mode) ==
    IF mode \in DOMAIN fallbacks THEN fallbacks[mode]
    ELSE "I'm here to help you learn! Can you tell me more about what you'd like to know?"

-----------------------------------------------------------------------------
(* learningEngine.js: the system prompt of a learning mode *)

\* the value of a missing property; like the empty string it is falsy
Undefined == ""

\* first revision
levelContext ==
    [ beginner |-> "Explain simply for a beginner learner. Use fun examples and avoid complex terms.",
      intermediate |-> "Explain for an intermediate learner. Balance detail with clarity.",
      advanced |-> "Explain for an advanced learner. Include more depth and connections.",
      expert |-> "Provide a comprehensive explanation with full context and nuance." ]

\* second revision
ageContext ==
    [ elementary |-> "Explain simply for a young student (ages 5-10). Use fun examples and avoid complex terms.",
      middle |-> "Explain for a middle school student (ages 10-14). Balance detail with clarity.",
      high |-> "Explain for a high school student (ages 14-18). Include more depth and connections.",
      adult |-> "Provide a comprehensive explanation with full context and nuance." ]

\* properties that every object literal inherits from Object.prototype, each
\* with the text that a template literal makes of its value
InheritedText ==
    [ constructor |-> "function Object() { [native code] }",
      toString |-> "function toString() { [native code] }" ]

\* obj[key] || obj[fallback], as text
LookupOr(obj, key, fallback) ==
    IF key \in DOMAIN obj THEN obj[key]
    ELSE IF key \in DOMAIN InheritedText THEN InheritedText[key]
    ELSE obj[fallback]

\* the object modePrompts; learner is the word the revision uses for the user
modePrompts(baseContext, learner) ==
    [ discovery |-> baseContext
        \o "\nUse the Socratic method - ask guiding questions to help the " \o learner
        \o " discover the answer themselves.\nDon't give direct answers immediately. Instead:\n1. Ask what they already know\n2. Guide them with hints\n3. Encourage their thinking process\n4. Celebrate their discoveries",
      practice |-> baseContext
        \o "\nCreate a step-by-step practice exercise. \n1. Start with a simple example\n2. Break it into manageable steps\n3. Provide immediate feedback\n4. Gradually increase difficulty\n5. Celebrate progress",
      explanation |-> baseContext
        \o "\nProvide a clear, engaging explanation.\n1. Start with the basic concept\n2. Use relatable examples\n3. Build complexity gradually\n4. Check understanding with questions\n5. Encourage questions",
      challenge |-> baseContext
        \o "\nPresent an engaging challenge that tests understanding.\n1. Start with an interesting problem\n2. Encourage problem-solving strategies\n3. Provide hints if needed\n4. Celebrate creative thinking\n5. Explain the solution thoroughly",
      review |-> baseContext
        \o "\nHelp reinforce and review the concept.\n1. Summarize key points\n2. Check understanding with questions\n3. Clarify any confusion\n4. Connect to previous learning\n5. Suggest next steps" ]

\* getLearningPrompt of the first revision.  For a mode that names an inherited
\* property the value returned is that property, written here as its text.
getLearningPromptV1(mode, subject, skillLevel) ==
    LET baseContext ==
            "You are Lilibet, an encouraging AI tutor helping a " \o skillLevel
            \o " level learner with " \o subject \o ". "
            \o LookupOr(levelContext, skillLevel, "intermediate")
    IN  LookupOr(modePrompts(baseContext, "learner"), mode, "discovery")

\* getLearningPrompt of the second revision
getLearningPromptV2(mode, subject, ageGroup) ==
    LET baseContext ==
            "You are Lilibet, an encouraging AI tutor helping a " \o ageGroup
            \o " student with " \o subject \o ". "
            \o LookupOr(ageContext, ageGroup, "middle")
    IN  LookupOr(modePrompts(baseContext, "student"), mode, "discovery")

getLearningPrompt(rev, mode, subject, level) ==
    IF rev = "v1" THEN getLearningPromptV1(mode, subject, level)
    ELSE getLearningPromptV2(mode, subject, level)

-----------------------------------------------------------------------------
(* The upstream providers *)

Providers == {"openai", "claude"}

\* what a provider writes when a request succeeds with content
ProviderText ==
    [ openai |-> "An answer written by the openai model.",
      claude |-> "An answer written by the claude model." ]

\* the exception messages of a failing upstream request
ProviderErrors ==
    { "429 Rate limit reached for requests",
      "400 Unsupported parameter: 'max_completion_tokens' is not supported with this model." }

\* how an upstream request ends: with content, with empty content, or with an exception
Outcomes ==
    { [kind |-> "text", error |-> ""], [kind |-> "empty", error |-> ""] }
        \cup { [kind |-> "error", error |-> e] : e \in ProviderErrors }

\* the messages processLearningInteraction is invoked with
EngineMessages == MessagesUpTo(1)

\* the subjects and the levels it is invoked with; each level is known to one
\* revision only
EngineSubjects == {"General"}
EngineLevels == {"middle", "beginner"}

\* the TypeError of message.toLowerCase() on a value that is not a string
NotAStringError == "message.toLowerCase is not a function"

-----------------------------------------------------------------------------
(* learningEngine.js: the provider adapters.  They work on a record st of  *)
(* the variables they change: st.call, st.upstream and st.logged.          *)

IdleCall ==
    [ pc |-> "idle", caller |-> "none", isString |-> TRUE, message |-> "",
      subject |-> "", level |-> "",
      hasOpenAI |-> FALSE, hasClaude |-> FALSE,
      mode |-> "", model |-> "", actualModel |-> "", stage |-> "",
      provider |-> "", attempt |-> 0, settled |-> "", value |-> "",
      calls |-> <<>>,       \* history: the adapter calls, each with how it ended
      producedBy |-> "",    \* history: who wrote the response, a provider or "canned"
      result |-> [response |-> "", metadata |-> [mode |-> "", model |-> ""]] ]

Log(st, text) == [st EXCEPT !.logged = @ \cup {text}]

\* the arguments system and messages of a request to provider
RequestBody(st, provider) ==
    LET c == st.call
        systemPrompt == getLearningPrompt(engine, c.mode, c.subject, c.level)
    IN  IF provider = "openai"
        THEN [system |-> Undefined,
              messages |-> << [role |-> "system", content |-> systemPrompt],
                              [role |-> "user", content |-> c.message] >>]
        ELSE [system |-> systemPrompt,
              messages |-> << [role |-> "user", content |-> c.message] >>]

\* await client.create({model: modelId, ...})
Request(st, provider, modelId, attempt) ==
    [st EXCEPT !.upstream = Append(@, [provider |-> provider, model |-> modelId,
                                       outcome |-> "pending", error |-> "",
                                       system |-> RequestBody(st, provider).system,
                                       messages |-> RequestBody(st, provider).messages]),
               !.call.provider = provider,
               !.call.attempt = attempt,
               !.call.settled = "pending",
               !.call.value = ""]

\* the adapter throws err
Reject(st, provider, err) ==
    [st EXCEPT !.call.provider = provider, !.call.settled = "rejected", !.call.value = err,
               !.call.calls[Len(st.call.calls)].settled = "rejected"]

\* the adapter returns the content of the completion
Resolve(st, text) ==
    [st EXCEPT !.call.settled = "resolved", !.call.value = text,
               !.call.calls[Len(st.call.calls)].settled = "resolved"]

\* the adapter of provider is entered
Enter(st, provider) ==
    [st EXCEPT !.call.calls = Append(@, [provider |-> provider, settled |-> "pending"])]

callOpenAILearningMode(st) ==
    IF ~openaiClient THEN Reject(Enter(st, "openai"), "openai", "OpenAI client not initialized")
    ELSE Request(Enter(st, "openai"), "openai", "gpt-4o-mini", 1)

\* callClaudeLearningMode without the test of the client
callClaudeLearningMode_NoClientTest(st) ==
    Request(Enter(st, "claude"), "claude", "claude-3-5-haiku-20241022", 1)

callClaudeLearningMode(st) ==
    IF ~claudeClient THEN Reject(Enter(st, "claude"), "claude", "Claude client not initialized")
    ELSE Request(Enter(st, "claude"), "claude", "claude-3-5-haiku-20241022", 1)

\* the model id of the adapter's second request
SecondaryModel(provider) ==
    IF provider = "openai" THEN "gpt-3.5-turbo" ELSE "claude-3-5-sonnet-20241022"

\* whether the adapter's catch block issues a second request after error err:
\* in the first revision both adapters always do
adapterRetriesV1(provider, err) == TRUE

\* adapterRetriesV2 for adapters that retry after every error
adapterRetriesV2_Always(provider, err) == TRUE

\* in the second revision only the OpenAI adapter does, for an error about the parameter
adapterRetriesV2(provider, err) ==
    provider = "openai" /\ includes(err, "max_completion_tokens")

adapterRetries(rev, provider, err) ==
    IF rev = "v1" THEN adapterRetriesV1(provider, err) ELSE adapterRetriesV2(provider, err)

\* the pending request, the last one issued, ends with outcome o
Answered(st, o) ==
    [st EXCEPT !.upstream[Len(st.upstream)].outcome = o.kind,
               !.upstream[Len(st.upstream)].error = o.error]

\* the continuation of an adapter when its pending request ends with outcome o
adapterSettle(st, rev, o) ==
    LET c == st.call
    IN  IF o.kind = "text" THEN Resolve(st, ProviderText[c.provider])
        ELSE IF o.kind = "empty" THEN Resolve(st, "")
        ELSE IF c.attempt = 1 /\ adapterRetries(rev, c.provider, o.error)
             THEN Request(Log(st, o.error), c.provider, SecondaryModel(c.provider), 2)
             ELSE Reject(Log(st, o.error), c.provider, o.error)

-----------------------------------------------------------------------------
(* learningEngine.js: processLearningInteraction, first revision *)

ReturnV1(st, response, actualModel, producedBy) ==
    [st EXCEPT !.call.pc = "returned",
               !.call.actualModel = actualModel,
               !.call.producedBy = producedBy,
               !.call.result = [response |-> response,
                                metadata |-> [mode |-> st.call.mode, model |-> actualModel]]]

\* settleV1 with a catch block that answers with the canned text of discovery
settleV1_CatchIgnoresMode(st) ==
    LET c == st.call
    IN  CASE c.settled = "pending" -> st
          [] c.settled = "resolved" ->
                IF c.value = ""
                THEN ReturnV1(st, getFallbackResponse(c.mode), "fallback", "canned")
                ELSE ReturnV1(st, c.value, c.actualModel, c.provider)
          [] c.settled = "rejected" ->
                ReturnV1(Log(st, c.value), getFallbackResponse("discovery"), "fallback", "canned")

\* after `await call...LearningMode(...)`: the check of the response, or the catch block
settleV1(st) ==
    LET c == st.call
    IN  CASE c.settled = "pending" -> st
          [] c.settled = "resolved" ->
                IF c.value = ""
                THEN ReturnV1(st, getFallbackResponse(c.mode), "fallback", "canned")
                ELSE ReturnV1(st, c.value, c.actualModel, c.provider)
          [] c.settled = "rejected" ->
                ReturnV1(Log(st, c.value), getFallbackResponse(c.mode), "fallback", "canned")

startV1(st) ==
    LET c == st.call
    IN  IF ~c.isString
        THEN [st EXCEPT !.call.pc = "threw", !.call.value = NotAStringError]
        ELSE
        LET mode == detectLearningMode(c.message)
            model == selectOptimalModel(mode, c.hasOpenAI, c.hasClaude)
            st1 == [st EXCEPT !.call.mode = mode, !.call.model = model,
                              !.call.actualModel = model, !.call.stage = "primary"]
        IN  IF model = "openai" /\ c.hasOpenAI THEN settleV1(callOpenAILearningMode(st1))
            ELSE IF model = "claude" /\ c.hasClaude THEN settleV1(callClaudeLearningMode(st1))
            ELSE IF model # "none" /\ c.hasOpenAI
                 THEN settleV1(callOpenAILearningMode([st1 EXCEPT !.call.actualModel = "openai"]))
            ELSE IF model # "none" /\ c.hasClaude
                 THEN settleV1(callClaudeLearningMode([st1 EXCEPT !.call.actualModel = "claude"]))
            ELSE ReturnV1(st1, getFallbackResponse(mode), "fallback", "canned")

-----------------------------------------------------------------------------
(* learningEngine.js: processLearningInteraction, second revision *)

ReturnV2(st, response, producedBy) ==
    [st EXCEPT !.call.pc = "returned",
               !.call.actualModel = st.call.model,
               !.call.producedBy = producedBy,
               !.call.result = [response |-> response,
                                metadata |-> [mode |-> st.call.mode, model |-> st.call.model]]]

\* the outer catch block
ReturnErrorV2(st, err) ==
    [Log(st, err) EXCEPT
               !.call.pc = "returned",
               !.call.actualModel = "fallback",
               !.call.producedBy = "canned",
               !.call.result = [response |-> getFallbackResponse("discovery"),
                                metadata |-> [mode |-> "discovery", model |-> "fallback",
                                              error |-> err]]]

\* after an awaited adapter call: the return, or the catch block of its try
RECURSIVE settleV2(_)
settleV2(st) ==
    LET c == st.call
    IN  CASE c.settled = "pending" -> st
          [] c.settled = "resolved" -> ReturnV2(st, c.value, c.provider)
          [] c.settled = "rejected" /\ c.stage = "primary" ->
                LET st1 == [Log(st, c.value) EXCEPT !.call.stage = "secondary"]
                IN  IF c.model = "openai" /\ c.hasClaude
                        THEN settleV2(callClaudeLearningMode(st1))
                    ELSE IF c.model = "claude" /\ c.hasOpenAI
                        THEN settleV2(callOpenAILearningMode(st1))
                    ELSE ReturnV2(st1, getFallbackResponse(c.mode), "canned")
          [] c.settled = "rejected" /\ c.stage = "secondary" ->
                ReturnV2(Log(st, c.value), getFallbackResponse(c.mode), "canned")

\* startV2 with the adapters exchanged: the provider that was not selected is
\* called first
startV2_OtherFirst(st) ==
    LET c == st.call
    IN  IF ~c.isString THEN ReturnErrorV2(st, NotAStringError)
        ELSE
        LET mode == detectLearningMode(c.message)
            selectedModel == selectOptimalModel(mode, c.hasOpenAI, c.hasClaude)
            st1 == [st EXCEPT !.call.mode = mode, !.call.model = selectedModel,
                              !.call.stage = "primary"]
        IN  IF selectedModel = "openai" THEN settleV2(callClaudeLearningMode(st1))
            ELSE IF selectedModel = "claude" THEN settleV2(callOpenAILearningMode(st1))
            ELSE ReturnV2(st1, getFallbackResponse(mode), "canned")

startV2(st) ==
    LET c == st.call
    IN  IF ~c.isString THEN ReturnErrorV2(st, NotAStringError)
        ELSE
        LET mode == detectLearningMode(c.message)
            selectedModel == selectOptimalModel(mode, c.hasOpenAI, c.hasClaude)
            st1 == [st EXCEPT !.call.mode = mode, !.call.model = selectedModel,
                              !.call.stage = "primary"]
        IN  IF selectedModel = "openai" THEN settleV2(callOpenAILearningMode(st1))
            ELSE IF selectedModel = "claude" THEN settleV2(callClaudeLearningMode(st1))
            ELSE ReturnV2(st1, getFallbackResponse(mode), "canned")

-----------------------------------------------------------------------------
(* processLearningInteraction as steps between its await points *)

State == [call |-> call, upstream |-> upstream, logged |-> logged]

\* the call, up to its first await or its return
processLearningInteraction(st, caller, isString, message, subject, level, hasOpenAI, hasClaude) ==
    LET st0 == [st EXCEPT !.call = [IdleCall EXCEPT !.pc = "awaiting", !.caller = caller,
                                                    !.isString = isString, !.message = message,
                                                    !.subject = subject, !.level = level,
                                                    !.hasOpenAI = hasOpenAI,
                                                    !.hasClaude = hasClaude]]
    IN  IF engine = "v1" THEN startV1(st0) ELSE startV2(st0)

\* the call resumes when its pending upstream request ends with outcome o
resumeInteraction(st, o) ==
    IF engine = "v1" THEN settleV1(adapterSettle(Answered(st, o), "v1", o))
    ELSE settleV2(adapterSettle(Answered(st, o), "v2", o))

\* a caller invokes processLearningInteraction directly
Invoke(isString, message, subject, level, hasOpenAI, hasClaude) ==
    /\ call.pc = "idle"
    /\ http.pc = "idle"
    /\ pure.fn = "none"
    /\ LET st == processLearningInteraction(State, "direct", isString, message,
                                            subject, level, hasOpenAI, hasClaude)
       IN  /\ call' = st.call
           /\ upstream' = st.upstream
           /\ logged' = st.logged
    /\ UNCHANGED <<openaiClient, claudeClient, nodeEnvDev, engine, http, pure>>
    /\ UNCHANGED apartVars

\* the pending upstream request of the call ends
UpstreamReplies(o) ==
    /\ call.pc = "awaiting"
    /\ LET st == resumeInteraction(State, o)
       IN  /\ call' = st.call
           /\ upstream' = st.upstream
           /\ logged' = st.logged
    /\ UNCHANGED <<openaiClient, claudeClient, nodeEnvDev, engine, http, pure>>
    /\ UNCHANGED apartVars

-----------------------------------------------------------------------------
(* processLearningInteraction called again while earlier calls are awaiting *)

\* checkAPIStatus(): which clients the module initialised
checkAPIStatus ==
    [ openai |-> openaiClient, claude |-> claudeClient,
      ready |-> openaiClient \/ claudeClient ]

CallIds == 1..MaxCalls

\* the messages of the concurrent calls: of one mode each, one preferring each provider
ConcurrentMessages == {"explain", "solve this"}

IdleSession == [call |-> IdleCall, upstream |-> <<>>, outcomes |-> <<>>]

\* StateOf when mode is a variable of the module and not of the call: a call
\* reads the mode of the call that classified last, here of any other call
\* that has started
StateOf_ModuleLevelMode(k) ==
    LET started == { j \in CallIds \ {k} : sessions[j].call.pc # "idle" }
        mode == IF started = {} \/ sessions[k].call.pc = "idle"
                THEN sessions[k].call.mode
                ELSE sessions[CHOOSE j \in started : TRUE].call.mode
    IN  [call |-> [sessions[k].call EXCEPT !.mode = mode],
         upstream |-> sessions[k].upstream, logged |-> logged]

\* what call k reads and writes: its own locals and requests, and the console
StateOf(k) ==
    [call |-> sessions[k].call, upstream |-> sessions[k].upstream, logged |-> logged]

\* call k is made as the engine server makes it, with the flags of
\* checkAPIStatus, and runs up to its first await or its return
Begin(k, message, level) ==
    /\ sessions[k].call.pc = "idle"
    /\ checkAPIStatus.ready
    /\ LET st == processLearningInteraction(StateOf(k), "tutor", TRUE, message,
                                            "General", level,
                                            checkAPIStatus.openai, checkAPIStatus.claude)
       IN  /\ sessions' = [sessions EXCEPT ![k] = [call |-> st.call,
                                                   upstream |-> st.upstream,
                                                   outcomes |-> <<>>]]
           /\ logged' = st.logged
    /\ UNCHANGED <<openaiClient, claudeClient, nodeEnvDev, engine, call, http, upstream, pure>>
    /\ UNCHANGED <<auth, db, requests, history>>

\* the pending upstream request of call k ends with outcome o, and call k
\* runs up to its next await or its return
Settle(k, o) ==
    /\ sessions[k].call.pc = "awaiting"
    /\ LET st == resumeInteraction(StateOf(k), o)
       IN  /\ sessions' = [sessions EXCEPT ![k] = [call |-> st.call,
                                                   upstream |-> st.upstream,
                                                   outcomes |-> Append(@.outcomes, o)]]
           /\ logged' = st.logged
    /\ UNCHANGED <<openaiClient, claudeClient, nodeEnvDev, engine, call, http, upstream, pure>>
    /\ UNCHANGED <<auth, db, requests, history>>

-----------------------------------------------------------------------------
(* The strict server revision: the intent classifier with answer detection *)

WhitespaceChars == {" ", "\t", "\n", "\r"}

IsDigitAt(s, i) == i >= 1 /\ i <= Len(s) /\ CharAt(s, i) \in CharsOf(DigitChars)

\* /\b\d+\b.*\??\s*$/
HasNumberThenRest(s) ==
    \E i \in 1..Len(s) : \E j \in i..Len(s) :
        /\ \A d \in i..j : IsDigitAt(s, d)
        /\ Boundary(s, i) /\ Boundary(s, j + 1)
        /\ \E k \in (j + 1)..(Len(s) + 1) :
              /\ \A x \in (j + 1)..(k - 1) : CharAt(s, x) \notin LineTerminators
              /\ \A x \in k..Len(s) : CharAt(s, x) \in WhitespaceChars

\* /\b(k)\s*\d+/
HasWordStartThenNumber(s, k) ==
    \E i \in 1..(Len(s) + 1) : \E j \in 1..Len(s) :
        /\ At(s, k, i) /\ Boundary(s, i)
        /\ j >= i + Len(k)
        /\ \A x \in (i + Len(k))..(j - 1) : CharAt(s, x) \in WhitespaceChars
        /\ IsDigitAt(s, j)

\* answerPatterns without the pattern of a leading yes, no, true or false
answerPatterns_NoLeadingWord(lowerMessage) ==
    \/ \E k \in {"is it", "the answer is", "i think it's", "i got", "my answer is"} :
           HasWord(lowerMessage, k)
    \/ HasNumberThenRest(lowerMessage)
    \/ \E k \in {"equal", "equals", "="} : HasWordStartThenNumber(lowerMessage, k)

answerPatterns(lowerMessage) ==
    \/ \E k \in {"is it", "the answer is", "i think it's", "i got", "my answer is"} :
           HasWord(lowerMessage, k)
    \/ HasNumberThenRest(lowerMessage)
    \/ \E k \in {"yes", "no", "true", "false"} : StartsWithWord(lowerMessage, k)
    \/ \E k \in {"equal", "equals", "="} : HasWordStartThenNumber(lowerMessage, k)

detectIntentStrict(message) ==
    LET lowerMessage == toLowerCase(message)
    IN  IF answerPatterns(lowerMessage) THEN "student_answer"
        ELSE IF conceptPatterns(lowerMessage) THEN "concept_explanation"
        ELSE IF homeworkPatterns(lowerMessage) THEN "homework_help"
        ELSE IF explorationPatterns(lowerMessage) THEN "exploration"
        ELSE IF directQuestion(lowerMessage) THEN "concept_explanation"
        ELSE "homework_help"

-----------------------------------------------------------------------------
(* server.js and the strict server revision: the level of a question *)

\* /\d+\s*[ops]\s*\d+/ matches s from position i up to position e - 1
ArithmeticAt(s, i, ops, e) ==
    \E a \in i..(e - 1) : \E b \in (a + 1)..(e - 1) : \E c \in (b + 1)..(e - 1) :
        /\ \A d \in i..a : IsDigitAt(s, d)
        /\ \A x \in (a + 1)..(b - 1) : CharAt(s, x) \in WhitespaceChars
        /\ CharAt(s, b) \in ops
        /\ \A x \in (b + 1)..(c - 1) : CharAt(s, x) \in WhitespaceChars
        /\ \A d \in c..(e - 1) : IsDigitAt(s, d)

\* /\b(k)\s*\d+\s*[ops]\s*\d+/
HasWordStartThenArithmetic(s, k, ops) ==
    \E i \in 1..Len(s) : \E j \in 1..Len(s) : \E e \in 1..(Len(s) + 1) :
        /\ At(s, k, i) /\ Boundary(s, i)
        /\ j >= i + Len(k)
        /\ \A x \in (i + Len(k))..(j - 1) : CharAt(s, x) \in WhitespaceChars
        /\ ArithmeticAt(s, j, ops, e)

\* /\b\d+\s*[ops]\s*\d+\b/
HasArithmetic(s, ops) ==
    \E i \in 1..Len(s) : \E e \in 1..(Len(s) + 1) :
        Boundary(s, i) /\ ArithmeticAt(s, i, ops, e) /\ Boundary(s, e)

\* /\b[xy]\s*[=+\-]/
HasVariableThenOperator(s) ==
    \E i \in 1..Len(s) : \E j \in (i + 1)..Len(s) :
        /\ CharAt(s, i) \in {"x", "y"} /\ Boundary(s, i)
        /\ \A x \in (i + 1)..(j - 1) : CharAt(s, x) \in WhitespaceChars
        /\ CharAt(s, j) \in {"=", "+", "-"}

HasAnyWord(s, words) == \E k \in words : HasWord(s, k)

\* the division sign of the second pattern of elementary-middle is outside the
\* alphabet of the messages and is left out of its character class
analyzeQuestionComplexity(message, subject) ==
    LET lowerMessage == toLowerCase(message)
        math ==
            IF \/ \E k \in {"what is", "how much is"} :
                     HasWordStartThenArithmetic(lowerMessage, k, {"+", "-"})
               \/ HasAnyWord(lowerMessage, {"plus", "minus", "add", "take away"})
               \/ HasArithmetic(lowerMessage, {"+", "-"})
            THEN "elementary"
            ELSE IF \/ HasAnyWord(lowerMessage, {"times", "multiply", "divide", "division"})
                    \/ HasArithmetic(lowerMessage, {"x", "*", "/"})
                    \/ HasAnyWord(lowerMessage, {"fraction", "half", "quarter"})
            THEN "elementary-middle"
            ELSE IF \/ HasAnyWord(lowerMessage, {"algebra", "equation", "solve for", "variable"})
                    \/ HasVariableThenOperator(lowerMessage)
                    \/ HasAnyWord(lowerMessage, {"decimal", "percentage", "percent"})
            THEN "middle"
            ELSE IF \/ HasAnyWord(lowerMessage, {"calculus", "derivative", "integral",
                                                 "trigonometry", "sine", "cosine", "tangent"})
                    \/ HasAnyWord(lowerMessage, {"polynomial", "quadratic", "logarithm",
                                                 "exponential"})
            THEN "high"
            ELSE "middle"
        reading ==
            IF \/ HasWordGap(lowerMessage, "what does", "mean")
               \/ HasAnyWord(lowerMessage, {"who is", "where is", "when did"})
               \/ Len(lowerMessage) < 50
            THEN "elementary"
            ELSE IF HasAnyWord(lowerMessage, {"theme", "character development", "metaphor",
                                              "symbolism"})
            THEN "middle"
            ELSE IF HasAnyWord(lowerMessage, {"literary device", "allegory", "irony", "satire",
                                              "postmodern"})
            THEN "high"
            ELSE "middle"
        writing ==
            IF HasAnyWord(lowerMessage, {"how do i write", "what should i write about"})
            THEN "elementary"
            ELSE IF HasAnyWord(lowerMessage, {"paragraph", "essay", "argument", "persuade"})
            THEN "middle"
            ELSE IF HasAnyWord(lowerMessage, {"thesis", "rhetoric", "discourse", "analysis"})
            THEN "high"
            ELSE "middle"
        science ==
            IF HasAnyWord(lowerMessage, {"what is", "why do", "how do", "animals", "plants",
                                         "weather"})
            THEN "elementary"
            ELSE IF HasAnyWord(lowerMessage, {"cell", "atom", "molecule", "ecosystem", "gravity"})
            THEN "middle"
            ELSE IF HasAnyWord(lowerMessage, {"quantum", "molecular", "biochemistry",
                                              "thermodynamics", "genetics"})
            THEN "high"
            ELSE "middle"
    IN  CASE subject = "math" -> math
          [] subject = "reading" -> reading
          [] subject = "writing" -> writing
          [] subject = "science" -> science
          [] OTHER -> "middle"

-----------------------------------------------------------------------------
(* server.js and the strict server revision: the system prompts.  The      *)
(* tables hold the template literals of the source character by character, *)
(* but for the characters outside ASCII: the emoji that open the rule      *)
(* lines are dropped, and the signs of multiplication, of division and of  *)
(* the square are written x, / and ^2.                                     *)

INTENT_BASED_PROMPTS ==
    "concept_explanation" :>
         ( "math" :>
             ( "elementary" :>
                 "You are Lilibet, a warm British tutor explaining math concepts to young children (ages 5-8).\n\nTEACHING MODE - Explain concepts clearly, then let THEM guide:\n- Give clear, simple explanations using everyday language\n- Use concrete examples they can picture\n- After explaining, ask what THEY want to explore next\n- Keep explanations under 40 words\n- Be encouraging and follow their interests\n\nRESPONSE STYLE:\n- \"Addition means putting numbers together! When you have 5 toys and get 3 more, you add them: 5 + 3 = 8 toys total. What else about addition would you like to know?\"\n- \"Subtraction means taking away! If you have 6 cookies and eat 2, you subtract: 6 - 2 = 4 cookies left. What would you like to try next?\""
            @@ "elementary-middle" :>
                 "You are Lilibet, a patient British tutor explaining math concepts to children (ages 8-10).\n\nTEACHING MODE - Explain concepts with examples, then follow their interests:\n- Give clear explanations with simple mathematical language\n- Use relatable examples and visual descriptions\n- After explaining, ask what aspect they want to explore\n- Keep explanations under 50 words\n- Let them guide the conversation direction\n\nRESPONSE STYLE:\n- \"Multiplication is repeated addition! 4 x 3 means adding 4 three times: 4 + 4 + 4 = 12. Or think of it as 4 groups of 3 objects. What part of multiplication interests you most?\""
            @@ "middle" :>
                 "You are Lilibet, a British tutor explaining math concepts to middle schoolers (ages 10-13).\n\nTEACHING MODE - Explain concepts with mathematical reasoning, then follow their curiosity:\n- Give clear explanations using proper mathematical terminology\n- Connect to previous knowledge and show patterns\n- After explaining, ask what they'd like to explore further\n- Keep explanations under 60 words\n- Let them choose the conversation direction\n\nRESPONSE STYLE:\n- \"An equation is like a balance scale - both sides must be equal. In x + 5 = 12, we need to find what number plus 5 equals 12. We can subtract 5 from both sides to keep it balanced. What would you like to understand better about equations?\""
            @@ "high" :>
                 "You are Lilibet, a British tutor explaining advanced math concepts to high school students (ages 13+).\n\nTEACHING MODE - Explain concepts with mathematical depth, then let them lead:\n- Give precise explanations using advanced mathematical language\n- Show connections to broader mathematical principles\n- After explaining, ask what aspect interests them most\n- Keep explanations under 70 words\n- Follow their intellectual curiosity\n\nRESPONSE STYLE:\n- \"A derivative represents the instantaneous rate of change of a function. For f(x) = x^2, the derivative f'(x) = 2x tells us the slope at any point x. At x = 3, the slope is 6. What aspect of derivatives would you like to explore further?\"" )
        @@ "science" :>
             ( "elementary" :>
                 "You are Lilibet, a warm British tutor explaining science concepts to young children (ages 5-8).\n\nTEACHING MODE - Explain concepts clearly, then let THEM guide:\n- Give clear, simple explanations using everyday language\n- Use examples from their world (animals, weather, toys)\n- After explaining, ask what they'd like to know more about\n- Keep explanations under 40 words\n- Make science feel magical and accessible\n\nRESPONSE STYLE:\n- \"Gravity is the invisible force that pulls things down to Earth! When you drop a ball, gravity makes it fall. That's why we don't float away! What else about gravity are you curious about?\""
            @@ "elementary-middle" :>
                 "You are Lilibet, a patient British tutor explaining science concepts to children (ages 8-10).\n\nTEACHING MODE - Explain concepts with examples, then follow their interests:\n- Give clear explanations with simple scientific language\n- Use relatable examples and demonstrations they can picture\n- After explaining, ask what aspect interests them most\n- Keep explanations under 50 words\n- Encourage their natural curiosity\n\nRESPONSE STYLE:\n- \"Photosynthesis is how plants make their own food using sunlight, water, and air! The green parts of plants capture sunlight and turn it into sugar, which feeds the plant. What part of this process would you like to understand better?\""
            @@ "middle" :>
                 "You are Lilibet, a British tutor explaining science concepts to middle schoolers (ages 10-13).\n\nTEACHING MODE - Explain concepts with scientific reasoning, then follow their curiosity:\n- Give clear explanations using proper scientific terminology\n- Connect to scientific processes and systems\n- After explaining, ask what they'd like to explore further\n- Keep explanations under 60 words\n- Let them guide the conversation direction\n\nRESPONSE STYLE:\n- \"Superposition in quantum mechanics means particles can exist in multiple states simultaneously until observed. Think of a spinning coin - it's both heads and tails until it lands. This challenges our everyday understanding of reality. What aspect of quantum mechanics interests you most?\""
            @@ "high" :>
                 "You are Lilibet, a British tutor explaining advanced science concepts to high school students (ages 13+).\n\nTEACHING MODE - Explain concepts with scientific depth, then let them lead:\n- Give precise explanations using advanced scientific language\n- Show connections to broader scientific principles and research\n- After explaining, ask what aspect they'd like to explore further\n- Keep explanations under 70 words\n- Follow their intellectual curiosity\n\nRESPONSE STYLE:\n- \"Superposition in quantum mechanics describes how particles exist in probabilistic states until measurement collapses the wave function. This principle underlies quantum computing and challenges classical determinism. It suggests reality at quantum scales operates fundamentally differently than our macroscopic experience. What aspect of quantum theory would you like to explore further?\"" ) )
    @@ "homework_help" :>
         ( "math" :>
             ( "elementary" :>
                 "You are Lilibet, a warm British tutor helping a young child (ages 5-8) with math homework.\n\nTUTORING MODE - Never give direct answers, guide discovery:\n- Use simple, encouraging language\n- Ask questions that lead them to the answer\n- Keep responses under 20 words\n- Use visual/concrete language they can picture\n- Be extra patient and positive\n\nRESPONSE STYLE for homework problems:\n- \"Can you count it on your fingers?\"\n- \"What number comes after 5?\"\n- \"If you have 5 toys and get 3 more, how many do you have?\"\n- \"Let's count together!\""
            @@ "elementary-middle" :>
                 "You are Lilibet, a patient British tutor helping a child (ages 8-10) with math homework.\n\nTUTORING MODE - Never give direct answers, use Socratic method:\n- Use clear, simple language but guide their thinking\n- Ask questions that break problems into steps\n- Keep responses under 25 words\n- Build on what they know\n- Encourage step-by-step thinking\n\nRESPONSE STYLE:\n- \"What operation do we use here?\"\n- \"Can you break this into smaller steps?\"\n- \"What do you remember about multiplication?\"\n- \"Let's think about what we know first.\""
            @@ "middle" :>
                 "You are Lilibet, a British tutor helping a middle school student (ages 10-13) with math homework.\n\nTUTORING MODE - Never give direct answers, use Socratic questioning:\n- Use precise mathematical language\n- Ask questions that guide them to discover methods\n- Keep responses under 30 words\n- Help them discover patterns and strategies\n- Encourage mathematical reasoning\n\nRESPONSE STYLE:\n- \"What strategy could we use here?\"\n- \"What pattern do you notice?\"\n- \"How is this similar to problems you've solved before?\"\n- \"What's the first step in solving this type of equation?\""
            @@ "high" :>
                 "You are Lilibet, a British tutor helping an advanced student (ages 13+) with math homework.\n\nTUTORING MODE - Never give direct answers, challenge their thinking:\n- Use sophisticated mathematical language\n- Ask probing questions that deepen understanding\n- Responses can be up to 35 words\n- Encourage rigorous mathematical thinking\n- Connect to broader mathematical concepts\n\nRESPONSE STYLE:\n- \"What mathematical principles apply here?\"\n- \"How might you approach this systematically?\"\n- \"What assumptions are we making?\"\n- \"Can you generalize this method?\"" ) )
    @@ "exploration" :>
         ( "math" :>
             ( "elementary" :>
                 "You are Lilibet, a warm British tutor encouraging a young child (ages 5-8) to explore math.\n\nEXPLORATION MODE - Encourage investigation and discovery:\n- Use simple, wonder-filled language\n- Suggest hands-on activities and experiments\n- Keep responses under 30 words\n- Make math feel like play and discovery\n- Ask questions that spark curiosity\n\nRESPONSE STYLE:\n- \"What patterns can you find?\"\n- \"Let's try it with different numbers!\"\n- \"What do you notice when you...\"\n- \"How could we test that idea?\""
            @@ "elementary-middle" :>
                 "You are Lilibet, a patient British tutor encouraging a child (ages 8-10) to explore math.\n\nEXPLORATION MODE - Guide mathematical exploration:\n- Use clear language that encourages investigation\n- Suggest experiments and pattern-finding activities\n- Keep responses under 35 words\n- Help them become mathematical investigators\n- Ask questions that lead to discoveries\n\nRESPONSE STYLE:\n- \"What happens if you try that with different numbers?\"\n- \"Can you find a pattern?\"\n- \"How could you test that hypothesis?\"\n- \"What mathematical tools could help you explore this?\""
            @@ "middle" :>
                 "You are Lilibet, a British tutor encouraging a middle schooler (ages 10-13) to explore math.\n\nEXPLORATION MODE - Foster mathematical investigation:\n- Use mathematical language that encourages deep exploration\n- Suggest systematic approaches to investigation\n- Keep responses under 40 words\n- Help them develop mathematical thinking skills\n- Ask questions that lead to mathematical insights\n\nRESPONSE STYLE:\n- \"How might you investigate this systematically?\"\n- \"What variables could you change to test this?\"\n- \"Can you design an experiment to explore this pattern?\"\n- \"What mathematical relationships do you observe?\""
            @@ "high" :>
                 "You are Lilibet, a British tutor encouraging an advanced student (ages 13+) to explore math.\n\nEXPLORATION MODE - Encourage sophisticated mathematical investigation:\n- Use advanced mathematical language\n- Suggest rigorous approaches to mathematical exploration\n- Keep responses under 45 words\n- Help them think like mathematicians\n- Ask questions that lead to deep mathematical insights\n\nRESPONSE STYLE:\n- \"How might you formalize this investigation?\"\n- \"What mathematical framework could you apply?\"\n- \"Can you generalize this to broader mathematical contexts?\"\n- \"What are the theoretical implications of this pattern?\"" ) )

ADAPTIVE_SYSTEM_PROMPTS ==
    "math" :>
         ( "elementary" :>
             "You are Lilibet, a warm British tutor helping a young child (ages 5-8) with basic math.\n\nCORE RULES:\n- Use simple, encouraging language\n- Never give direct answers - guide with very simple questions\n- Keep responses under 20 words\n- Use visual/concrete language they can picture\n- Be extra patient and positive\n\nRESPONSE STYLE for basic addition/subtraction:\n- \"Can you count it on your fingers?\"\n- \"What number comes after 5?\"\n- \"If you have 5 toys and get 3 more, how many do you have?\"\n- \"Let's count together!\""
        @@ "elementary-middle" :>
             "You are Lilibet, a patient British tutor helping a child (ages 8-10) with elementary math.\n\nCORE RULES:\n- Use clear, simple language but slightly more advanced concepts\n- Never give direct answers - ask guiding questions\n- Keep responses under 25 words\n- Build on what they know\n- Encourage step-by-step thinking\n\nRESPONSE STYLE:\n- \"What operation do we use here?\"\n- \"Can you break this into smaller steps?\"\n- \"What do you remember about multiplication?\"\n- \"Let's think about what we know first.\""
        @@ "middle" :>
             "You are Lilibet, a British tutor helping a middle school student (ages 10-13) with math.\n\nCORE RULES:\n- Use precise mathematical language\n- Never give direct answers - use Socratic questioning\n- Keep responses under 30 words\n- Help them discover patterns and methods\n- Encourage mathematical reasoning\n\nRESPONSE STYLE:\n- \"What strategy could we use here?\"\n- \"What pattern do you notice?\"\n- \"How is this similar to problems you've solved before?\"\n- \"What's the first step in solving this type of equation?\""
        @@ "high" :>
             "You are Lilibet, a British tutor helping an advanced student (ages 13+) with complex math.\n\nCORE RULES:\n- Use sophisticated mathematical language\n- Never give direct answers - challenge their thinking\n- Responses can be up to 35 words\n- Encourage deep mathematical understanding\n- Connect to broader mathematical concepts\n\nRESPONSE STYLE:\n- \"What mathematical principles apply here?\"\n- \"How might you approach this systematically?\"\n- \"What assumptions are we making?\"\n- \"Can you generalize this method?\"" )
    @@ "reading" :>
         ( "elementary" :>
             "You are Lilibet, a warm British tutor helping a young child (ages 5-8) with reading.\n\nCORE RULES:\n- Use simple, clear language\n- Never give direct answers about story meaning\n- Keep responses under 20 words\n- Ask about pictures, feelings, and simple story elements\n- Be very encouraging\n\nRESPONSE STYLE:\n- \"What do you see happening in this part?\"\n- \"How do you think the character feels?\"\n- \"What happened first in the story?\"\n- \"Can you find that word on the page?\""
        @@ "elementary-middle" :>
             "You are Lilibet, a patient British tutor helping a child (ages 8-10) with reading comprehension.\n\nCORE RULES:\n- Use clear language with some advanced vocabulary\n- Never give direct answers - guide discovery\n- Keep responses under 25 words\n- Ask about character actions and story events\n- Help them make connections\n\nRESPONSE STYLE:\n- \"What clues tell you that?\"\n- \"Why do you think the character did that?\"\n- \"What would you do in this situation?\"\n- \"How did the character change?\""
        @@ "middle" :>
             "You are Lilibet, a British tutor helping a middle school student (ages 10-13) with reading analysis.\n\nCORE RULES:\n- Use literary terminology appropriately\n- Never give direct answers - encourage analysis\n- Keep responses under 30 words\n- Help them analyze themes and character development\n- Guide them to find textual evidence\n\nRESPONSE STYLE:\n- \"What evidence supports that interpretation?\"\n- \"How does this connect to the main theme?\"\n- \"What literary techniques is the author using?\"\n- \"How does this scene advance the plot?\""
        @@ "high" :>
             "You are Lilibet, a British tutor helping an advanced student (ages 13+) with literary analysis.\n\nCORE RULES:\n- Use sophisticated literary language\n- Never give direct answers - challenge critical thinking\n- Responses can be up to 35 words\n- Encourage deep textual analysis\n- Connect to broader literary movements and techniques\n\nRESPONSE STYLE:\n- \"How does this reflect the author's broader themes?\"\n- \"What literary traditions is this drawing from?\"\n- \"How might we interpret this symbolically?\"\n- \"What cultural context influences this text?\"" )
    @@ "writing" :>
         ( "elementary" :>
             "You are Lilibet, a warm British tutor helping a young child (ages 5-8) with writing.\n\nCORE RULES:\n- Use simple, encouraging language\n- Never write for them - ask about their ideas\n- Keep responses under 20 words\n- Focus on their thoughts and feelings\n- Make writing feel fun and personal\n\nRESPONSE STYLE:\n- \"What do you want to tell us?\"\n- \"How did that make you feel?\"\n- \"What happened next in your story?\"\n- \"What's your favorite part?\""
        @@ "elementary-middle" :>
             "You are Lilibet, a patient British tutor helping a child (ages 8-10) with writing.\n\nCORE RULES:\n- Use clear language with some writing terminology\n- Never write content for them - guide their ideas\n- Keep responses under 25 words\n- Help organize their thoughts\n- Encourage descriptive details\n\nRESPONSE STYLE:\n- \"What details could you add?\"\n- \"How can you show that instead of telling?\"\n- \"What's the main thing you want to say?\"\n- \"Can you describe what it looked like?\""
        @@ "middle" :>
             "You are Lilibet, a British tutor helping a middle school student (ages 10-13) with writing.\n\nCORE RULES:\n- Use proper writing terminology\n- Never write content for them - guide structure and development\n- Keep responses under 30 words\n- Help with organization and argument development\n- Encourage revision and improvement\n\nRESPONSE STYLE:\n- \"How does this support your main argument?\"\n- \"What evidence could strengthen this point?\"\n- \"How might you reorganize this for clarity?\"\n- \"What's your thesis statement?\""
        @@ "high" :>
             "You are Lilibet, a British tutor helping an advanced student (ages 13+) with sophisticated writing.\n\nCORE RULES:\n- Use advanced writing and rhetorical terminology\n- Never write content for them - challenge their analysis and argumentation\n- Responses can be up to 35 words\n- Help with complex argument structures\n- Encourage sophisticated analysis\n\nRESPONSE STYLE:\n- \"How does your rhetoric serve your purpose?\"\n- \"What counterarguments should you address?\"\n- \"How can you strengthen your analytical framework?\"\n- \"What's your rhetorical strategy here?\"" )
    @@ "science" :>
         ( "elementary" :>
             "You are Lilibet, a warm British tutor helping a young child (ages 5-8) with science exploration.\n\nCORE RULES:\n- Use simple, wonder-filled language\n- Never give direct answers - encourage observation\n- Keep responses under 20 words\n- Focus on what they can see and experience\n- Make science feel magical and exciting\n\nRESPONSE STYLE:\n- \"What do you notice about that?\"\n- \"What do you think will happen?\"\n- \"How does it feel/look/smell?\"\n- \"Let's look more closely!\""
        @@ "elementary-middle" :>
             "You are Lilibet, a patient British tutor helping a child (ages 8-10) with science concepts.\n\nCORE RULES:\n- Use clear scientific language with simple explanations\n- Never give direct answers - encourage hypothesis formation\n- Keep responses under 25 words\n- Help them make predictions and observations\n- Connect science to their everyday world\n\nRESPONSE STYLE:\n- \"What's your hypothesis?\"\n- \"What evidence do you see?\"\n- \"How is this like something you know?\"\n- \"What might cause that to happen?\""
        @@ "middle" :>
             "You are Lilibet, a British tutor helping a middle school student (ages 10-13) with scientific thinking.\n\nCORE RULES:\n- Use proper scientific terminology\n- Never give direct answers - encourage scientific method\n- Keep responses under 30 words\n- Help them design investigations and analyze data\n- Connect to broader scientific principles\n\nRESPONSE STYLE:\n- \"How could you test that hypothesis?\"\n- \"What variables are affecting this?\"\n- \"What patterns do you observe in the data?\"\n- \"How does this relate to what we know about...?\""
        @@ "high" :>
             "You are Lilibet, a British tutor helping an advanced student (ages 13+) with complex scientific concepts.\n\nCORE RULES:\n- Use sophisticated scientific language\n- Never give direct answers - challenge scientific reasoning\n- Responses can be up to 35 words\n- Encourage experimental design and analysis\n- Connect to current scientific research and theory\n\nRESPONSE STYLE:\n- \"What experimental controls would you implement?\"\n- \"How does this connect to broader scientific principles?\"\n- \"What are the limitations of this approach?\"\n- \"How might you model this system?\"" )

STRICT_SOCRATIC_PROMPTS ==
    "student_answer" :>
         ( "math" :>
             ( "elementary" :>
                 "You are Lilibet, a warm British tutor checking a young child's (ages 5-8) math work.\n\nANSWER CHECKING MODE - CRITICAL RULES:\nNEVER give the correct answer directly\nOnly say if their answer is right or wrong\nIf wrong, ask a guiding question to help them think\nIf right, celebrate and ask what they want to try next\nKeep responses under 20 words\n\nRESPONSE EXAMPLES:\n- If correct: \"Well done! That's exactly right! What would you like to try next?\"\n- If wrong: \"Not quite! Can you count it again on your fingers?\"\n- If wrong: \"Almost there! What happens when you add one more?\"\n\nNEVER SAY THE ACTUAL ANSWER. Only guide them to discover it."
            @@ "elementary-middle" :>
                 "You are Lilibet, a patient British tutor checking a child's (ages 8-10) math work.\n\nANSWER CHECKING MODE - CRITICAL RULES:\nNEVER give the correct answer directly\nOnly confirm if their answer is right or wrong\nIf wrong, ask a strategic question to guide them\nIf right, praise and ask what they want to explore next\nKeep responses under 25 words\n\nRESPONSE EXAMPLES:\n- If correct: \"Excellent work! That's the right answer. What other problems would you like to try?\"\n- If wrong: \"Not quite right. Can you check your work step by step?\"\n- If wrong: \"Close! What operation did you use? Let's think through it again.\""
            @@ "middle" :>
                 "You are Lilibet, a British tutor checking a middle schooler's (ages 10-13) math work.\n\nANSWER CHECKING MODE - CRITICAL RULES:\nNEVER give the correct answer directly\nOnly verify if their answer is correct or incorrect\nIf wrong, ask about their method or strategy\nIf right, congratulate and encourage further exploration\nKeep responses under 30 words\n\nRESPONSE EXAMPLES:\n- If correct: \"Perfect! You got it right. How did you approach this problem?\"\n- If wrong: \"That's not quite right. Can you walk me through your steps?\"\n- If wrong: \"I see where you're going, but check your calculation again. What strategy did you use?\""
            @@ "high" :>
                 "You are Lilibet, a British tutor checking an advanced student's (ages 13+) math work.\n\nANSWER CHECKING MODE - CRITICAL RULES:\nNEVER give the correct answer directly\nOnly indicate if their answer is correct or needs revision\nIf wrong, question their methodology or assumptions\nIf right, praise and probe deeper understanding\nKeep responses under 35 words\n\nRESPONSE EXAMPLES:\n- If correct: \"Excellent! That's correct. Can you explain your reasoning behind this approach?\"\n- If wrong: \"That's not the right answer. What assumptions did you make in your calculation?\"\n- If wrong: \"I see your logic, but there's an error somewhere. Can you verify your method?\"" )
        @@ "reading" :>
             ( "elementary" :>
                 "You are Lilibet, checking a young child's (ages 5-8) reading comprehension.\n\nANSWER CHECKING MODE - CRITICAL RULES:\nNEVER give the correct answer about the story\nOnly say if their understanding is right or needs more thinking\nIf wrong, ask them to look at the story again\nIf right, celebrate and ask what else they noticed\nKeep responses under 20 words\n\nRESPONSE EXAMPLES:\n- If correct: \"Yes, you understood that perfectly! What else did you notice in the story?\"\n- If wrong: \"Let's look at that part again. What do you see happening?\""
            @@ "elementary-middle" :>
                 "You are Lilibet, checking a child's (ages 8-10) reading comprehension.\n\nANSWER CHECKING MODE - CRITICAL RULES:\nNEVER give the correct interpretation of the text\nOnly confirm if their understanding is accurate or needs refinement\nIf wrong, guide them back to specific text evidence\nIf right, praise and encourage deeper thinking\nKeep responses under 25 words"
            @@ "middle" :>
                 "You are Lilibet, checking a middle schooler's (ages 10-13) reading analysis.\n\nANSWER CHECKING MODE - CRITICAL RULES:\nNEVER give the correct literary interpretation\nOnly verify if their analysis is supported by evidence\nIf wrong, ask them to find text evidence for their ideas\nIf right, congratulate and probe deeper analysis\nKeep responses under 30 words"
            @@ "high" :>
                 "You are Lilibet, checking an advanced student's (ages 13+) literary analysis.\n\nANSWER CHECKING MODE - CRITICAL RULES:\nNEVER provide the correct interpretation or analysis\nOnly assess if their interpretation is well-supported\nIf wrong, challenge them to examine their evidence more carefully\nIf right, praise and encourage more sophisticated analysis\nKeep responses under 35 words" )
        @@ "science" :>
             ( "elementary" :>
                 "You are Lilibet, checking a young child's (ages 5-8) science observations.\n\nANSWER CHECKING MODE - CRITICAL RULES:\nNEVER give the correct scientific explanation\nOnly confirm if their observation is accurate\nIf wrong, ask them to look more carefully\nIf right, celebrate and ask what else they observe\nKeep responses under 20 words"
            @@ "elementary-middle" :>
                 "You are Lilibet, checking a child's (ages 8-10) science understanding.\n\nANSWER CHECKING MODE - CRITICAL RULES:\nNEVER give the correct scientific explanation\nOnly verify if their hypothesis matches their observations\nIf wrong, guide them to make better observations\nIf right, praise and encourage further investigation\nKeep responses under 25 words"
            @@ "middle" :>
                 "You are Lilibet, checking a middle schooler's (ages 10-13) scientific reasoning.\n\nANSWER CHECKING MODE - CRITICAL RULES:\nNEVER provide the correct scientific explanation\nOnly assess if their reasoning follows scientific method\nIf wrong, ask them to reconsider their evidence\nIf right, congratulate and encourage deeper investigation\nKeep responses under 30 words"
            @@ "high" :>
                 "You are Lilibet, checking an advanced student's (ages 13+) scientific analysis.\n\nANSWER CHECKING MODE - CRITICAL RULES:\nNEVER give the correct scientific explanation or conclusion\nOnly evaluate if their analysis follows scientific principles\nIf wrong, challenge them to examine their methodology\nIf right, praise and encourage more sophisticated investigation\nKeep responses under 35 words" ) )
    @@ "concept_explanation" :>
         ( "math" :>
             ( "elementary" :>
                 "You are Lilibet, a warm British tutor explaining math concepts to young children (ages 5-8).\n\nTEACHING MODE - CRITICAL RULES:\nNEVER SOLVE PROBLEMS OR GIVE DIRECT ANSWERS\nExplain concepts clearly using simple language\nUse everyday examples they can picture\nAfter explaining, ask what THEY want to explore next\nKeep explanations under 40 words\nMake learning feel like discovery\n\nRESPONSE STYLE:\n- \"Addition means putting things together! If you have 2 toys and find 1 more, you put them together. What would you like to practice adding?\"\n- \"Subtraction means taking away! If you have 5 cookies and eat some, you have less. What would you like to try taking away?\"\n\nREMEMBER: Explain the concept, then let THEM do the work!"
            @@ "elementary-middle" :>
                 "You are Lilibet, a patient British tutor explaining math concepts to children (ages 8-10).\n\nTEACHING MODE - CRITICAL RULES:\nNEVER SOLVE PROBLEMS OR GIVE DIRECT ANSWERS TO CALCULATIONS\nExplain concepts with simple mathematical language\nUse relatable examples and visual descriptions\nAfter explaining, ask what they want to practice\nKeep explanations under 50 words\nGuide them to discover through their own work\n\nRESPONSE STYLE:\n- \"Multiplication is repeated addition! 4 x 3 means adding 4 three times, or 4 groups of 3 things. What multiplication would you like to try?\"\n- \"Fractions show parts of a whole! Like cutting a pizza into equal pieces. What fraction problems interest you?\""
            @@ "middle" :>
                 "You are Lilibet, a British tutor explaining math concepts to middle schoolers (ages 10-13).\n\nTEACHING MODE - CRITICAL RULES:\nNEVER SOLVE EQUATIONS OR GIVE DIRECT ANSWERS TO PROBLEMS\nExplain concepts using proper mathematical terminology\nConnect to previous knowledge and show patterns\nAfter explaining, ask what they'd like to work on\nKeep explanations under 60 words\nLet them choose problems to solve themselves\n\nRESPONSE STYLE:\n- \"An equation is like a balance scale - both sides must be equal. To solve it, we keep both sides balanced while isolating the variable. What equation would you like to practice solving?\""
            @@ "high" :>
                 "You are Lilibet, a British tutor explaining advanced math concepts to high school students (ages 13+).\n\nTEACHING MODE - CRITICAL RULES:\nNEVER SOLVE COMPLEX PROBLEMS OR GIVE DIRECT ANSWERS\nExplain concepts with mathematical depth and precision\nShow connections to broader mathematical principles\nAfter explaining, ask what they want to explore\nKeep explanations under 70 words\nChallenge them to apply concepts independently\n\nRESPONSE STYLE:\n- \"A derivative represents the instantaneous rate of change of a function. It tells us how steep the curve is at any point. What function would you like to practice finding the derivative of?\"" )
        @@ "reading" :>
             ( "elementary" :>
                 "You are Lilibet, a warm British tutor explaining reading concepts to young children (ages 5-8).\n\nTEACHING MODE - CRITICAL RULES:\nNEVER TELL THEM WHAT THE STORY MEANS OR GIVE INTERPRETATIONS\nExplain reading concepts using simple language\nUse examples from stories they might know\nAfter explaining, ask what they want to read about\nKeep explanations under 40 words\nLet them discover meaning through their own reading\n\nRESPONSE STYLE:\n- \"Characters are the people or animals in stories! They do things and have feelings. What character would you like to talk about?\"\n- \"The main idea is what the story is mostly about. What story would you like to find the main idea in?\""
            @@ "elementary-middle" :>
                 "You are Lilibet, a patient British tutor explaining reading concepts to children (ages 8-10).\n\nTEACHING MODE - CRITICAL RULES:\nNEVER GIVE INTERPRETATIONS OR TELL THEM WHAT TEXT MEANS\nExplain reading concepts with clear examples\nHelp them understand how to find meaning themselves\nAfter explaining, ask what text they want to explore\nKeep explanations under 50 words\nGuide them to make their own discoveries"
            @@ "middle" :>
                 "You are Lilibet, a British tutor explaining reading concepts to middle schoolers (ages 10-13).\n\nTEACHING MODE - CRITICAL RULES:\nNEVER PROVIDE LITERARY INTERPRETATIONS OR ANALYSIS\nExplain literary concepts and techniques\nShow them how to analyze text themselves\nAfter explaining, ask what they want to analyze\nKeep explanations under 60 words\nEncourage their own critical thinking"
            @@ "high" :>
                 "You are Lilibet, a British tutor explaining advanced reading concepts to high school students (ages 13+).\n\nTEACHING MODE - CRITICAL RULES:\nNEVER GIVE COMPLEX LITERARY ANALYSIS OR INTERPRETATIONS\nExplain sophisticated literary concepts and frameworks\nShow connections to literary traditions and movements\nAfter explaining, ask what they want to analyze\nKeep explanations under 70 words\nChallenge them to develop original interpretations" )
        @@ "science" :>
             ( "elementary" :>
                 "You are Lilibet, a warm British tutor explaining science concepts to young children (ages 5-8).\n\nTEACHING MODE - CRITICAL RULES:\nNEVER GIVE DIRECT ANSWERS TO SCIENTIFIC QUESTIONS\nExplain concepts using simple, wonder-filled language\nUse examples from their everyday world\nAfter explaining, ask what they want to explore\nKeep explanations under 40 words\nEncourage them to observe and discover\n\nRESPONSE STYLE:\n- \"Gravity is the force that pulls things down to Earth! It's why things fall instead of floating away. What would you like to explore about gravity?\"\n- \"Plants need sunlight, water, and air to grow! They use these to make their own food. What about plants interests you most?\""
            @@ "elementary-middle" :>
                 "You are Lilibet, a patient British tutor explaining science concepts to children (ages 8-10).\n\nTEACHING MODE - CRITICAL RULES:\nNEVER GIVE DIRECT ANSWERS TO SCIENTIFIC QUESTIONS\nExplain concepts with simple scientific language\nUse examples they can observe or experiment with\nAfter explaining, ask what they want to investigate\nKeep explanations under 50 words\nGuide them to make their own observations"
            @@ "middle" :>
                 "You are Lilibet, a British tutor explaining science concepts to middle schoolers (ages 10-13).\n\nTEACHING MODE - CRITICAL RULES:\nNEVER PROVIDE DIRECT ANSWERS TO SCIENTIFIC PROBLEMS\nExplain concepts using proper scientific terminology\nConnect to scientific processes and systems\nAfter explaining, ask what they want to investigate\nKeep explanations under 60 words\nEncourage them to form their own hypotheses"
            @@ "high" :>
                 "You are Lilibet, a British tutor explaining advanced science concepts to high school students (ages 13+).\n\nTEACHING MODE - CRITICAL RULES:\nNEVER GIVE DIRECT ANSWERS TO COMPLEX SCIENTIFIC QUESTIONS\nExplain concepts with scientific depth and precision\nShow connections to current research and applications\nAfter explaining, ask what they want to explore\nKeep explanations under 70 words\nChallenge them to design their own investigations" ) )
    @@ "homework_help" :>
         ( "math" :>
             ( "elementary" :>
                 "You are Lilibet, a warm British tutor helping a young child (ages 5-8) with math homework.\n\nSOCRATIC TUTORING MODE - CRITICAL RULES:\nNEVER GIVE DIRECT ANSWERS TO MATH PROBLEMS\nNEVER SAY \"4 + 2 = 6\" OR ANY CALCULATION RESULTS\nOnly ask questions that help them think\nGuide them to discover the answer themselves\nKeep responses under 20 words\nUse simple, encouraging language\n\nRESPONSE EXAMPLES FOR \"What is 4+2?\":\n- \"Can you show me 4 fingers? Now show me 2 more? How many do you see altogether?\"\n- \"If you have 4 toys and get 2 more toys, how could you count them all?\"\n- \"What happens when you count starting from 4 and count 2 more numbers?\"\n\nNEVER SAY THE ANSWER. ONLY GUIDE THEM TO FIND IT."
            @@ "elementary-middle" :>
                 "You are Lilibet, a patient British tutor helping a child (ages 8-10) with math homework.\n\nSOCRATIC TUTORING MODE - CRITICAL RULES:\nNEVER GIVE DIRECT ANSWERS TO MATH CALCULATIONS\nNEVER SAY \"6 x 7 = 42\" OR ANY SOLUTION STEPS\nOnly ask guiding questions that help them think\nBreak problems into smaller thinking steps\nKeep responses under 25 words\nHelp them discover strategies\n\nRESPONSE EXAMPLES:\n- \"What strategy could help you solve this?\"\n- \"Can you break this into smaller, easier parts?\"\n- \"What do you already know that might help?\"\n- \"How could you check if your answer makes sense?\""
            @@ "middle" :>
                 "You are Lilibet, a British tutor helping a middle school student (ages 10-13) with math homework.\n\nSOCRATIC TUTORING MODE - CRITICAL RULES:\nNEVER GIVE DIRECT ANSWERS TO EQUATIONS OR PROBLEMS\nNEVER SAY \"x = 5\" OR ANY SOLUTION STEPS\nOnly ask questions that guide their mathematical reasoning\nHelp them discover methods and strategies\nKeep responses under 30 words\nEncourage systematic thinking\n\nRESPONSE EXAMPLES:\n- \"What's your first step in solving this type of equation?\"\n- \"What mathematical rule applies here?\"\n- \"How can you isolate the variable?\"\n- \"What would happen if you tried...?\""
            @@ "high" :>
                 "You are Lilibet, a British tutor helping an advanced student (ages 13+) with math homework.\n\nSOCRATIC TUTORING MODE - CRITICAL RULES:\nNEVER GIVE DIRECT ANSWERS TO COMPLEX PROBLEMS\nNEVER SOLVE DERIVATIVES, INTEGRALS, OR ANY CALCULATIONS\nOnly ask probing questions that challenge their thinking\nGuide them to discover advanced methods\nKeep responses under 35 words\nEncourage rigorous mathematical reasoning\n\nRESPONSE EXAMPLES:\n- \"What fundamental principles apply to this problem?\"\n- \"How might you approach this systematically?\"\n- \"What connections do you see to previous concepts?\"\n- \"Can you verify your approach is valid?\"" )
        @@ "reading" :>
             ( "elementary" :>
                 "You are Lilibet, helping a young child (ages 5-8) with reading homework.\n\nSOCRATIC TUTORING MODE - CRITICAL RULES:\nNEVER TELL THEM WHAT THE STORY MEANS\nNEVER GIVE INTERPRETATIONS OR EXPLANATIONS OF TEXT\nOnly ask questions about what they see and think\nGuide them to discover meaning themselves\nKeep responses under 20 words\nAsk about their own observations\n\nRESPONSE EXAMPLES:\n- \"What do you see happening in this part?\"\n- \"How do you think the character is feeling?\"\n- \"What clues help you know that?\"\n- \"What do you notice about this picture?\""
            @@ "elementary-middle" :>
                 "You are Lilibet, helping a child (ages 8-10) with reading homework.\n\nSOCRATIC TUTORING MODE - CRITICAL RULES:\nNEVER TELL THEM WHAT THE TEXT MEANS OR THEMES\nNEVER GIVE INTERPRETATIONS OF CHARACTERS OR PLOT\nOnly ask questions that help them think about the text\nGuide them to find evidence for their ideas\nKeep responses under 25 words\nHelp them form their own understanding"
            @@ "middle" :>
                 "You are Lilibet, helping a middle schooler (ages 10-13) with reading homework.\n\nSOCRATIC TUTORING MODE - CRITICAL RULES:\nNEVER PROVIDE LITERARY ANALYSIS OR INTERPRETATIONS\nNEVER EXPLAIN THEMES, SYMBOLS, OR CHARACTER MOTIVATIONS\nOnly ask questions that guide their analysis\nHelp them find and evaluate textual evidence\nKeep responses under 30 words\nEncourage critical thinking about literature"
            @@ "high" :>
                 "You are Lilibet, helping an advanced student (ages 13+) with reading homework.\n\nSOCRATIC TUTORING MODE - CRITICAL RULES:\nNEVER PROVIDE COMPLEX LITERARY ANALYSIS OR INTERPRETATIONS\nNEVER EXPLAIN LITERARY DEVICES, THEMES, OR CULTURAL CONTEXT\nOnly ask challenging questions that deepen their analysis\nGuide them to sophisticated textual interpretation\nKeep responses under 35 words\nChallenge them to develop original insights" )
        @@ "writing" :>
             ( "elementary" :>
                 "You are Lilibet, helping a young child (ages 5-8) with writing.\n\nSOCRATIC TUTORING MODE - CRITICAL RULES:\nNEVER WRITE CONTENT FOR THEM\nNEVER GIVE THEM WORDS OR SENTENCES TO USE\nOnly ask questions about their own ideas and thoughts\nHelp them express what they want to say\nKeep responses under 20 words\nFocus on their creativity and voice\n\nRESPONSE EXAMPLES:\n- \"What do you want to tell people about?\"\n- \"How did that make you feel?\"\n- \"What happened next in your story?\"\n- \"What was the most exciting part?\""
            @@ "elementary-middle" :>
                 "You are Lilibet, helping a child (ages 8-10) with writing.\n\nSOCRATIC TUTORING MODE - CRITICAL RULES:\nNEVER WRITE CONTENT OR PROVIDE SPECIFIC WORDS FOR THEM\nNEVER GIVE THEM SENTENCES OR PARAGRAPH STRUCTURE\nOnly ask questions that help them develop their ideas\nGuide them to organize their own thoughts\nKeep responses under 25 words\nHelp them find their own voice"
            @@ "middle" :>
                 "You are Lilibet, helping a middle schooler (ages 10-13) with writing.\n\nSOCRATIC TUTORING MODE - CRITICAL RULES:\nNEVER WRITE CONTENT, ARGUMENTS, OR ANALYSIS FOR THEM\nNEVER PROVIDE SPECIFIC EVIDENCE OR SUPPORTING DETAILS\nOnly ask questions that help them develop their arguments\nGuide them to find and organize their own evidence\nKeep responses under 30 words\nHelp them strengthen their reasoning"
            @@ "high" :>
                 "You are Lilibet, helping an advanced student (ages 13+) with writing.\n\nSOCRATIC TUTORING MODE - CRITICAL RULES:\nNEVER WRITE COMPLEX ARGUMENTS, ANALYSIS, OR CONTENT FOR THEM\nNEVER PROVIDE SOPHISTICATED EVIDENCE OR RHETORICAL STRATEGIES\nOnly ask challenging questions that refine their thinking\nGuide them to develop sophisticated arguments independently\nKeep responses under 35 words\nChallenge them to elevate their analytical thinking" )
        @@ "science" :>
             ( "elementary" :>
                 "You are Lilibet, helping a young child (ages 5-8) with science homework.\n\nSOCRATIC TUTORING MODE - CRITICAL RULES:\nNEVER GIVE DIRECT ANSWERS TO SCIENCE QUESTIONS\nNEVER EXPLAIN SCIENTIFIC PHENOMENA DIRECTLY\nOnly ask questions that help them observe and think\nGuide them to make their own discoveries\nKeep responses under 20 words\nEncourage wonder and exploration\n\nRESPONSE EXAMPLES:\n- \"What do you notice about that?\"\n- \"What do you think will happen if...?\"\n- \"How does it look/feel/smell?\"\n- \"What questions does this make you have?\""
            @@ "elementary-middle" :>
                 "You are Lilibet, helping a child (ages 8-10) with science homework.\n\nSOCRATIC TUTORING MODE - CRITICAL RULES:\nNEVER GIVE DIRECT ANSWERS TO SCIENTIFIC QUESTIONS\nNEVER EXPLAIN SCIENTIFIC PROCESSES OR CONCEPTS DIRECTLY\nOnly ask questions that help them form hypotheses\nGuide them to make observations and predictions\nKeep responses under 25 words\nHelp them think like scientists"
            @@ "middle" :>
                 "You are Lilibet, helping a middle schooler (ages 10-13) with science homework.\n\nSOCRATIC TUTORING MODE - CRITICAL RULES:\nNEVER PROVIDE DIRECT ANSWERS TO SCIENTIFIC PROBLEMS\nNEVER EXPLAIN SCIENTIFIC PRINCIPLES OR PROCESSES\nOnly ask questions that guide scientific reasoning\nHelp them design investigations and analyze data\nKeep responses under 30 words\nEncourage systematic scientific thinking"
            @@ "high" :>
                 "You are Lilibet, helping an advanced student (ages 13+) with science homework.\n\nSOCRATIC TUTORING MODE - CRITICAL RULES:\nNEVER GIVE DIRECT ANSWERS TO COMPLEX SCIENTIFIC QUESTIONS\nNEVER EXPLAIN ADVANCED SCIENTIFIC CONCEPTS OR THEORIES\nOnly ask challenging questions that deepen scientific reasoning\nGuide them to connect concepts and evaluate evidence\nKeep responses under 35 words\nChallenge them to think like professional scientists" ) )
    @@ "exploration" :>
         ( "math" :>
             ( "elementary" :>
                 "You are Lilibet, encouraging a young child (ages 5-8) to explore math.\n\nEXPLORATION MODE - CRITICAL RULES:\nNEVER GIVE ANSWERS TO MATHEMATICAL QUESTIONS OR PROBLEMS\nAsk questions that spark mathematical curiosity and investigation\nSuggest hands-on activities and experiments they can do\nKeep responses under 30 words\nMake math feel like exciting discovery\n\nRESPONSE EXAMPLES:\n- \"What patterns can you find with different numbers?\"\n- \"How could we test that idea with real objects?\"\n- \"What happens when you try that with bigger numbers?\"\n- \"Can you find that pattern in things around you?\""
            @@ "elementary-middle" :>
                 "You are Lilibet, encouraging a child (ages 8-10) to explore math.\n\nEXPLORATION MODE - CRITICAL RULES:\nNEVER PROVIDE ANSWERS TO MATHEMATICAL INVESTIGATIONS\nAsk questions that lead to mathematical discovery\nSuggest experiments and pattern-finding activities\nKeep responses under 35 words\nHelp them become mathematical investigators"
            @@ "middle" :>
                 "You are Lilibet, encouraging a middle schooler (ages 10-13) to explore math.\n\nEXPLORATION MODE - CRITICAL RULES:\nNEVER GIVE ANSWERS TO MATHEMATICAL EXPLORATIONS\nAsk questions that foster systematic mathematical investigation\nGuide them to discover mathematical relationships independently\nKeep responses under 40 words\nHelp them develop mathematical thinking skills"
            @@ "high" :>
                 "You are Lilibet, encouraging an advanced student (ages 13+) to explore math.\n\nEXPLORATION MODE - CRITICAL RULES:\nNEVER PROVIDE ANSWERS TO SOPHISTICATED MATHEMATICAL QUESTIONS\nAsk challenging questions that lead to mathematical insights\nGuide them to explore advanced mathematical concepts independently\nKeep responses under 45 words\nHelp them think like mathematicians" ) )

\* table[a]?.[b]?.[c]; the levels are never names that objects inherit
Lookup3(table, a, b, c) ==
    IF a \notin DOMAIN table THEN Undefined
    ELSE IF b \notin DOMAIN table[a] THEN Undefined
    ELSE IF c \notin DOMAIN table[a][b] THEN Undefined
    ELSE table[a][b][c]

\* table[a]?.[b]
Lookup2(table, a, b) ==
    IF a \notin DOMAIN table THEN Undefined
    ELSE IF b \notin DOMAIN table[a] THEN Undefined
    ELSE table[a][b]

\* the final fallback of the intent-based handler
GenericPrompt ==
    "You are Lilibet, a helpful British tutor. Adapt your response to be appropriate for the student's level and question type."

\* the fallback of the strict handler
StrictFallbackPrompt ==
    "You are Lilibet, a British tutor. \n\nCRITICAL RULES:\nNEVER give direct answers to any questions or problems\nNEVER solve math problems, explain text meanings, or provide scientific explanations\nONLY ask guiding questions that help the student think\nIf they give an answer, only say if it's right or wrong, then ask what they want to try next\nKeep responses under 30 words\nGuide them to discover answers themselves\n\nYour role is to guide, not tell."

\* the choice of systemPrompt in the intent-based handler
systemPromptIntent(intent, subject, level) ==
    IF Lookup3(INTENT_BASED_PROMPTS, intent, subject, level) # Undefined
    THEN Lookup3(INTENT_BASED_PROMPTS, intent, subject, level)
    ELSE IF Lookup2(ADAPTIVE_SYSTEM_PROMPTS, subject, level) # Undefined
    THEN Lookup2(ADAPTIVE_SYSTEM_PROMPTS, subject, level)
    ELSE GenericPrompt

\* the choice of systemPrompt in the strict handler
systemPromptStrict(intent, subject, level) ==
    IF Lookup3(STRICT_SOCRATIC_PROMPTS, intent, subject, level) # Undefined
    THEN Lookup3(STRICT_SOCRATIC_PROMPTS, intent, subject, level)
    ELSE StrictFallbackPrompt

-----------------------------------------------------------------------------
(* The /api/tutor handlers *)

IdleHttp ==
    [ pc |-> "idle", handler |-> "none", kind |-> "missing", message |-> "",
      subject |-> "", conversationHistory |-> <<>>, intent |-> "", level |-> "",
      status |-> 0, body |-> [error |-> ""] ]

\* the kinds of value req.body.message can hold
MessageKinds == {"string", "missing", "other"}

\* req.body.subject; the empty string stands for a subject that is missing or empty
Subjects == {"math", "reading", "writing", "science", "art"}

\* req.body.message of the handlers that call OpenAI themselves
TutorMessages ==
    EngineMessages \cup { "What is 4+2?", "Yes", "no, it is x", "true, 2 times 3",
                          "False: the derivative", "yesterday we", "I got 12" }

\* the number of messages of the history that the handlers send on
KeepLast == 10

\* a conversation history of n messages, each with a text of its own
History(n) ==
    [ i \in 1..n |-> [role |-> IF i % 2 = 1 THEN "user" ELSE "assistant",
                      content |-> "turn " \o ToString(i)] ]

\* req.body.conversationHistory: empty, short, of KeepLast messages, and longer
Histories == { History(n) : n \in {0, 2, KeepLast, MaxHistory} }

\* req.body.conversationHistory of the handler that calls the learning engine
EngineHistories == { History(n) : n \in {0, 2} }

\* Array.prototype.slice(-n)
SliceLast(h, n) == SubSeq(h, IF Len(h) > n THEN Len(h) - n + 1 ELSE 1, Len(h))

\* !message
Falsy(kind, message) == kind = "missing" \/ (kind = "string" /\ message = "")

Reply(h, status, body) == [h EXCEPT !.pc = "replied", !.status = status, !.body = body]

\* the body of the catch block of the handler that calls the learning engine
EngineServerError(err) ==
    IF nodeEnvDev
    THEN [error |-> "An error occurred while processing your request", details |-> err]
    ELSE [error |-> "An error occurred while processing your request"]

\* POST /api/tutor of the server revision that calls the learning engine, up to its await
TutorEngine(kind, message, subject, ageGroup, conversationHistory) ==
    /\ http.pc = "idle"
    /\ call.pc = "idle"
    /\ pure.fn = "none"
    /\ LET h == [http EXCEPT !.handler = "engine", !.kind = kind, !.message = message,
                             !.subject = subject, !.level = ageGroup,
                             !.conversationHistory = conversationHistory]
       IN  IF Falsy(kind, message)
           THEN /\ http' = Reply(h, 400, [error |-> "Message is required"])
                /\ UNCHANGED <<call, upstream, logged>>
           ELSE IF kind # "string"
           THEN /\ http' = Reply(h, 500, EngineServerError("message.substring is not a function"))
                /\ logged' = logged \cup {"message.substring is not a function"}
                /\ UNCHANGED <<call, upstream>>
           ELSE IF ~checkAPIStatus.ready
           THEN /\ http' = Reply(h, 503,
                          [error |-> "AI service temporarily unavailable. Please check API configuration."])
                /\ logged' = logged \cup {"No AI APIs configured"}
                /\ UNCHANGED <<call, upstream>>
           ELSE LET st == processLearningInteraction(State, "tutor", TRUE, message,
                                                     subject, ageGroup,
                                                     checkAPIStatus.openai,
                                                     checkAPIStatus.claude)
                IN  /\ http' = [h EXCEPT !.pc = "awaitEngine"]
                    /\ call' = st.call
                    /\ upstream' = st.upstream
                    /\ logged' = st.logged
    /\ UNCHANGED <<openaiClient, claudeClient, nodeEnvDev, engine, pure>>
    /\ UNCHANGED apartVars

\* the handler resumes when processLearningInteraction has returned or thrown
TutorEngineReplies ==
    /\ http.pc = "awaitEngine"
    /\ call.pc \in {"returned", "threw"}
    /\ IF call.pc = "returned"
       THEN /\ http' = Reply(http, 200, [response |-> call.result.response,
                                         metadata |-> call.result.metadata])
            /\ UNCHANGED logged
       ELSE /\ http' = Reply(http, 500, EngineServerError(call.value))
            /\ logged' = logged \cup {call.value}
    /\ UNCHANGED <<openaiClient, claudeClient, nodeEnvDev, engine, call, upstream, pure>>
    /\ UNCHANGED apartVars

\* the body of the catch block of the two handlers that call OpenAI themselves
IntentServerError(err) ==
    [error |-> "Sorry, I'm having trouble thinking right now. Could you try again?",
     details |-> err]

\* the two server revisions that call OpenAI themselves always construct their
\* OpenAI client and have neither a Claude client nor a learning engine; they
\* start from the one state that says so
OpenAIOnlyServer == openaiClient /\ ~claudeClient /\ ~nodeEnvDev /\ engine = "v2"

\* POST /api/tutor of the intent-based and of the strict server revision, up to its await
TutorIntent(handler, kind, message, subject, conversationHistory) ==
    /\ http.pc = "idle"
    /\ call.pc = "idle"
    /\ pure.fn = "none"
    /\ OpenAIOnlyServer
    /\ LET h == [http EXCEPT !.handler = handler, !.kind = kind, !.message = message,
                             !.subject = subject,
                             !.conversationHistory = conversationHistory]
           intent == IF handler = "strict" THEN detectIntentStrict(message)
                     ELSE detectIntent(message)
           level == analyzeQuestionComplexity(message, subject)
           systemPrompt == IF handler = "strict"
                           THEN systemPromptStrict(intent, subject, level)
                           ELSE systemPromptIntent(intent, subject, level)
           messages == << [role |-> "system", content |-> systemPrompt] >>
                       \o SliceLast(conversationHistory, KeepLast)
                       \o << [role |-> "user", content |-> message] >>
       IN  IF Falsy(kind, message) \/ subject = ""
           THEN /\ http' = Reply(h, 400, [error |-> "Message and subject are required"])
                /\ UNCHANGED <<upstream, logged>>
           ELSE IF kind # "string"
           THEN /\ http' = Reply(h, 500, IntentServerError(NotAStringError))
                /\ logged' = logged \cup {NotAStringError}
                /\ UNCHANGED upstream
           ELSE /\ http' = [h EXCEPT !.pc = "awaitOpenAI", !.intent = intent, !.level = level]
                /\ upstream' = Append(upstream, [provider |-> "openai", model |-> "gpt-4o-mini",
                                                 outcome |-> "pending", error |-> "",
                                                 system |-> Undefined,
                                                 messages |-> messages])
                /\ UNCHANGED logged
    /\ UNCHANGED <<openaiClient, claudeClient, nodeEnvDev, engine, call, pure>>
    /\ UNCHANGED apartVars

\* the handler resumes when its OpenAI request ends with outcome o
TutorIntentReplies(o) ==
    /\ http.pc = "awaitOpenAI"
    /\ upstream' = [upstream EXCEPT ![Len(upstream)].outcome = o.kind,
                                    ![Len(upstream)].error = o.error]
    /\ IF o.kind = "error"
       THEN /\ http' = Reply(http, 500, IntentServerError(o.error))
            /\ logged' = logged \cup {o.error}
       ELSE /\ http' = Reply(http, 200,
                   [response |-> IF o.kind = "text" THEN ProviderText["openai"] ELSE "",
                    detectedLevel |-> http.level,
                    detectedIntent |-> http.intent])
            /\ UNCHANGED logged
    /\ UNCHANGED <<openaiClient, claudeClient, nodeEnvDev, engine, call, pure>>
    /\ UNCHANGED apartVars

-----------------------------------------------------------------------------
(* auth.js: accounts, links between mentors and learners, conversations.   *)
(* The file holds two revisions: the parent-student one ("parent") and the *)
(* mentor-learner one ("mentor").  A handler runs as steps between its     *)
(* awaited queries; a query either answers or throws.                      *)

AuthRevisions == {"parent", "mentor"}

\* the user type that redeems an invitation and the user type that creates one
MentorType == IF auth = "parent" THEN "parent" ELSE "mentor"
LearnerType == IF auth = "parent" THEN "student" ELSE "learner"

\* the SQL NULL of an id column
Null == 0

UpperChar(ch) ==
    IF \E i \in 1..Len(LowerChars) : CharAt(LowerChars, i) = ch
    THEN LET i == CHOOSE i \in 1..Len(LowerChars) : CharAt(LowerChars, i) = ch
         IN  CharAt(UpperChars, i)
    ELSE ch

RECURSIVE toUpperCase(_)
toUpperCase(s) ==
    IF s = "" THEN "" ELSE UpperChar(CharAt(s, 1)) \o toUpperCase(SubSeq(s, 2, Len(s)))

\* /^[^\s@]+@[^\s@]+\.[^\s@]+$/
isValidEmail(email) ==
    \E i \in 2..Len(email) :
        /\ CharAt(email, i) = "@"
        /\ \A j \in 1..Len(email) :
              j # i => CharAt(email, j) \notin WhitespaceChars \cup {"@"}
        /\ \E d \in (i + 2)..(Len(email) - 1) : CharAt(email, d) = "."

\* /^[a-zA-Z0-9_]{3,20}$/
isValidUsername(username) ==
    /\ Len(username) >= 3 /\ Len(username) <= 20
    /\ \A i \in 1..Len(username) : CharAt(username, i) \in WordChars

\* the tables, empty
EmptyDb == [users |-> <<>>, links |-> {}, conversations |-> <<>>]

\* a request that has not been made
IdleRequest ==
    [ op |-> "none", pc |-> "idle",
      user |-> Null,        \* req.user.id of the verified token
      args |-> <<>>,        \* req.body and req.params
      status |-> 0,         \* the status of the reply
      returned |-> {},      \* the ids of the conversations in the reply
      acquired |-> 0,       \* history: clients taken with pool.connect()
      released |-> 0,       \* history: calls of client.release()
      failed |-> FALSE ]    \* history: a query of the request threw

\* what the accounts went through, kept for the properties only
NoHistory ==
    [ accepted |-> {},      \* [code, mentor, learner]: mentor accepted the link of learner
      unlinked |-> {} ]     \* <<learner, mentor>>: learner removed the access of mentor

\* req.user.userType: the type written into the token of an account
userTypeOf(w) == w.db.users[w.r.user].user_type

\* const client = await pool.connect()
Connect(w, pc) == [w EXCEPT !.r.acquired = @ + 1, !.r.pc = pc]

\* client.release()
Release(w) == [w EXCEPT !.r.released = @ + 1]

\* res.status(status).json(...)
Respond(w, status) == [w EXCEPT !.r.pc = "done", !.r.status = status]

\* a query threw and the catch block releases the client
Caught(w) == Respond(Release([w EXCEPT !.r.failed = TRUE]), 500)

\* a query threw and the catch block only answers
CaughtNoRelease(w) == Respond([w EXCEPT !.r.failed = TRUE], 500)

\* SELECT id FROM users WHERE LOWER(column) = LOWER(value)
ExistsLower(users, column, value) ==
    \E u \in 1..Len(users) : toLowerCase(users[u][column]) = toLowerCase(value)

\* the UNIQUE constraints of users: email, and username where it is not NULL
UsersUnique(users) ==
    \A u, v \in 1..Len(users) :
        u # v => /\ users[u].email # users[v].email
                 /\ users[u].username = "" \/ users[u].username # users[v].username

\* Redeemable without the test of mentor_id
Redeemable_AnyMentor(links, code) == { l \in links : l.code = code }

\* UPDATE ... SET mentor_id = $1, status = 'active'
\*   WHERE invitation_code = $2 AND mentor_id IS NULL RETURNING learner_id
Redeemable(links, code) == { l \in links : l.code = code /\ l.mentor = Null }

redeem(w, newUser, code) ==
    LET rows == Redeemable(w.db.links, code)
        after(l) == [l EXCEPT !.mentor = newUser, !.status = "active"]
    IN  [w EXCEPT !.db.links = (@ \ rows) \cup { after(l) : l \in rows },
                  !.history.accepted =
                      @ \cup { [code |-> l.code, mentor |-> newUser, learner |-> l.learner] :
                               l \in rows },
                  !.history.unlinked = @ \ { <<l.learner, newUser>> : l \in rows }]

\* registerUser, the same in the two revisions but for the names of the types
registerUser(w, ok) ==
    LET b == w.r.args
        users == w.db.users
        row == [email |-> toLowerCase(b.email), username |-> toLowerCase(b.username),
                user_type |-> b.userType]
    IN  CASE w.r.pc = "entry" ->
                IF b.email = "" \/ b.password = "" THEN Respond(w, 400)
                ELSE IF ~isValidEmail(b.email) THEN Respond(w, 400)
                ELSE IF b.username # "" /\ ~isValidUsername(b.username) THEN Respond(w, 400)
                ELSE IF Len(b.password) < 6 THEN Respond(w, 400)
                ELSE Connect(w, "selectEmail")
          [] w.r.pc = "selectEmail" ->
                IF ~ok THEN Caught(w)
                ELSE IF ExistsLower(users, "email", b.email) THEN Respond(Release(w), 409)
                ELSE [w EXCEPT !.r.pc = IF b.username # "" THEN "selectUsername" ELSE "insert"]
          [] w.r.pc = "selectUsername" ->
                IF ~ok THEN Caught(w)
                ELSE IF ExistsLower(users, "username", b.username)
                     THEN Respond(Release(w), 409)
                ELSE [w EXCEPT !.r.pc = "insert"]
          [] w.r.pc = "insert" ->
                IF ~ok \/ ~UsersUnique(Append(users, row)) THEN Caught(w)
                ELSE LET w1 == [w EXCEPT !.db.users = Append(users, row)]
                     IN  IF b.userType = MentorType /\ b.inviteCode # ""
                         THEN [w1 EXCEPT !.r.pc = "redeem"]
                         ELSE Respond(Release(w1), 201)
          [] w.r.pc = "redeem" ->
                \* newUser.id: the account of this email, inserted by this request
                LET newUser == CHOOSE u \in 1..Len(users) : users[u].email = row.email
                IN  IF ~ok THEN Caught(w)
                    ELSE Respond(Release(redeem(w, newUser, toUpperCase(b.inviteCode))), 201)

\* UNIQUE(mentor_id, learner_id) and UNIQUE(invitation_code) of the links table;
\* rows whose mentor_id is NULL never collide on the pair
LinksUnique(links) ==
    \A l, m \in links :
        l # m => /\ l.code # m.code
                 /\ l.mentor = Null \/ <<l.mentor, l.learner>> # <<m.mentor, m.learner>>

\* createParentInvitation: INSERT ... ON CONFLICT (invitation_code) DO UPDATE SET student_id = $1
createParentInvitation(w, ok) ==
    LET code == toUpperCase(w.r.args.code)
        rows == { l \in w.db.links : l.code = code }
        links == IF rows = {}
                 THEN w.db.links \cup { [code |-> code, learner |-> w.r.user,
                                         mentor |-> Null, status |-> "pending"] }
                 ELSE (w.db.links \ rows) \cup { [l EXCEPT !.learner = w.r.user] : l \in rows }
    IN  CASE w.r.pc = "entry" -> Connect(w, "upsert")
          [] w.r.pc = "upsert" ->
                IF ~ok \/ ~LinksUnique(links) THEN CaughtNoRelease(w)
                ELSE Respond(Release([w EXCEPT !.db.links = links]), 200)

\* createMentorInvitation: the code is the value of genCode()
createMentorInvitation(w, ok) ==
    LET code == w.r.args.code
        links == w.db.links \cup { [code |-> code, learner |-> w.r.user,
                                    mentor |-> Null, status |-> "pending"] }
    IN  CASE w.r.pc = "entry" ->
                IF userTypeOf(w) # "learner" THEN Respond(w, 403) ELSE Connect(w, "insert")
          [] w.r.pc = "insert" ->
                IF ~ok \/ (\E l \in w.db.links : l.code = code) THEN Caught(w)
                ELSE Respond(Release([w EXCEPT !.db.links = links]), 201)

\* the links WHERE learner_id = $1 AND mentor_id = $2
LinksOf(links, learner, mentor) ==
    { l \in links : l.learner = learner /\ l.mentor = mentor }

\* unlinkParent: UPDATE ... SET status = 'revoked'
unlinkParent(w, ok) ==
    LET rows == LinksOf(w.db.links, w.r.user, w.r.args.target)
    IN  CASE w.r.pc = "entry" -> Connect(w, "update")
          [] w.r.pc = "update" ->
                IF ~ok THEN CaughtNoRelease(w)
                ELSE Respond(Release(
                        [w EXCEPT !.db.links = (@ \ rows)
                                      \cup { [l EXCEPT !.status = "revoked"] : l \in rows },
                                  !.history.unlinked =
                                      @ \cup { <<l.learner, l.mentor>> : l \in rows }]), 200)

\* unlinkMentor with a DELETE that removes no row
unlinkMentor_NoDelete(w, ok) ==
    LET rows == LinksOf(w.db.links, w.r.user, w.r.args.target)
    IN  CASE w.r.pc = "entry" -> Connect(w, "delete")
          [] w.r.pc = "delete" ->
                IF ~ok THEN Caught(w)
                ELSE Respond(Release(
                        [w EXCEPT !.history.unlinked =
                                      @ \cup { <<l.learner, l.mentor>> : l \in rows }]),
                        IF rows = {} THEN 404 ELSE 200)

\* unlinkMentor: DELETE ... RETURNING id
unlinkMentor(w, ok) ==
    LET rows == LinksOf(w.db.links, w.r.user, w.r.args.target)
    IN  CASE w.r.pc = "entry" -> Connect(w, "delete")
          [] w.r.pc = "delete" ->
                IF ~ok THEN Caught(w)
                ELSE Respond(Release(
                        [w EXCEPT !.db.links = @ \ rows,
                                  !.history.unlinked =
                                      @ \cup { <<l.learner, l.mentor>> : l \in rows }]),
                        IF rows = {} THEN 404 ELSE 200)

\* ActiveLink without the test of the status
ActiveLink_AnyStatus(links, mentor, learner) ==
    \E l \in links : l.mentor = mentor /\ l.learner = learner

\* SELECT 1 FROM links WHERE mentor_id = $1 AND learner_id = $2 AND status = 'active'
ActiveLink(links, mentor, learner) ==
    \E l \in links : l.mentor = mentor /\ l.learner = learner /\ l.status = "active"

\* SELECT ... FROM conversations WHERE user_id = $1
ConversationsOf(conversations, owner) ==
    { c \in 1..Len(conversations) : conversations[c].user_id = owner }

\* getStudentConversations
getStudentConversations(w, ok) ==
    CASE w.r.pc = "entry" -> Connect(w, "access")
      [] w.r.pc = "access" ->
            IF ~ok THEN CaughtNoRelease(w)
            ELSE IF ~ActiveLink(w.db.links, w.r.user, w.r.args.target)
                 THEN Respond(Release(w), 403)
            ELSE [w EXCEPT !.r.pc = "list"]
      [] w.r.pc = "list" ->
            IF ~ok THEN CaughtNoRelease(w)
            ELSE Respond(Release([w EXCEPT !.r.returned =
                             ConversationsOf(w.db.conversations, w.r.args.target)]), 200)

\* getLearnerConversations
getLearnerConversations(w, ok) ==
    CASE w.r.pc = "entry" ->
            IF userTypeOf(w) # "mentor" THEN Respond(w, 403) ELSE Connect(w, "access")
      [] w.r.pc = "access" ->
            IF ~ok THEN Caught(w)
            ELSE IF ~ActiveLink(w.db.links, w.r.user, w.r.args.target)
                 THEN Respond(Release(w), 403)
            ELSE [w EXCEPT !.r.pc = "list"]
      [] w.r.pc = "list" ->
            IF ~ok THEN Caught(w)
            ELSE Respond(Release([w EXCEPT !.r.returned =
                             ConversationsOf(w.db.conversations, w.r.args.target)]), 200)

\* saveConversation, for a body with a subject and messages
saveConversation(w, ok) ==
    CASE w.r.pc = "entry" -> Connect(w, "insert")
      [] w.r.pc = "insert" ->
            IF ~ok THEN Caught(w)
            ELSE Respond(Release(
                    [w EXCEPT !.db.conversations =
                                  Append(@, [user_id |-> w.r.user,
                                             messages |-> w.r.args.messages])]),
                    IF auth = "parent" THEN 200 ELSE 201)

\* getConversation: of the owner alone in the parent revision, of the owner
\* or of a linked mentor in the mentor revision
getConversation(w, ok) ==
    LET id == w.r.args.id
        found == id \in 1..Len(w.db.conversations)
        owner == w.db.conversations[id].user_id
        sent == Respond(Release([w EXCEPT !.r.returned = {id}]), 200)
    IN  CASE w.r.pc = "entry" -> Connect(w, "select")
          [] w.r.pc = "select" /\ auth = "parent" ->
                IF ~ok THEN Caught(w)
                ELSE IF ~found \/ owner # w.r.user THEN Respond(Release(w), 404)
                ELSE sent
          [] w.r.pc = "select" /\ auth = "mentor" ->
                IF ~ok THEN Caught(w)
                ELSE IF ~found THEN Respond(Release(w), 404)
                ELSE IF owner = w.r.user THEN sent
                ELSE IF userTypeOf(w) = "mentor" THEN [w EXCEPT !.r.pc = "link"]
                ELSE Respond(Release(w), 403)
          [] w.r.pc = "link" ->
                IF ~ok THEN Caught(w)
                ELSE IF ~ActiveLink(w.db.links, w.r.user, owner) THEN Respond(Release(w), 403)
                ELSE sent

\* updateConversation, for a body with messages: SET messages = $1
updateConversation(w, ok) ==
    LET id == w.r.args.id
        found == id \in 1..Len(w.db.conversations)
        owner == w.db.conversations[id].user_id
        updated == [w EXCEPT !.db.conversations[id].messages = w.r.args.messages]
    IN  CASE w.r.pc = "entry" -> Connect(w, IF auth = "parent" THEN "update" ELSE "select")
          [] w.r.pc = "select" ->
                IF ~ok THEN Caught(w)
                ELSE IF ~found THEN Respond(Release(w), 404)
                ELSE IF owner # w.r.user THEN Respond(Release(w), 403)
                ELSE [w EXCEPT !.r.pc = "update"]
          [] w.r.pc = "update" /\ auth = "parent" ->
                IF ~ok THEN Caught(w)
                ELSE IF ~found \/ owner # w.r.user THEN Respond(Release(w), 404)
                ELSE Respond(Release(updated), 200)
          [] w.r.pc = "update" /\ auth = "mentor" ->
                IF ~ok THEN Caught(w) ELSE Respond(Release(updated), 200)

\* getUserProfile: the catch block of the parent revision does not release
getUserProfile(w, ok) ==
    CASE w.r.pc = "entry" -> Connect(w, "select")
      [] w.r.pc = "select" ->
            IF ~ok THEN (IF auth = "parent" THEN CaughtNoRelease(w) ELSE Caught(w))
            ELSE IF w.r.user \notin 1..Len(w.db.users) THEN Respond(Release(w), 404)
            ELSE Respond(Release(w), 200)

\* the handler of a request
handle(w, ok) ==
    CASE w.r.op = "registerUser" -> registerUser(w, ok)
      [] w.r.op = "createInvitation" ->
            IF auth = "parent" THEN createParentInvitation(w, ok)
            ELSE createMentorInvitation(w, ok)
      [] w.r.op = "unlink" ->
            IF auth = "parent" THEN unlinkParent(w, ok) ELSE unlinkMentor(w, ok)
      [] w.r.op = "viewConversations" ->
            IF auth = "parent" THEN getStudentConversations(w, ok)
            ELSE getLearnerConversations(w, ok)
      [] w.r.op = "saveConversation" -> saveConversation(w, ok)
      [] w.r.op = "getConversation" -> getConversation(w, ok)
      [] w.r.op = "updateConversation" -> updateConversation(w, ok)
      [] w.r.op = "getUserProfile" -> getUserProfile(w, ok)

-----------------------------------------------------------------------------
(* auth.js: the requests.  Request k is made by the holder of a token, runs *)
(* up to its first await, and resumes when its pending query ends.          *)

RequestIds == 1..MaxRequests

\* the invitation codes: what a learner sends, what genCode() returns
Codes == {"X"}

\* the message lists of a conversation: one, and the same with a message
\* appended
MessageLists == { <<"hello">>, <<"hello", "hi there">> }

\* bodies of POST /api/auth/register: two learners, a mentor with a code in
\* lower case, and a body without a password
Ann == [email |-> "ann@x.io", username |-> "ann", password |-> "secret1",
        userType |-> LearnerType, inviteCode |-> ""]
Bob == [email |-> "bob@x.io", username |-> "", password |-> "secret1",
        userType |-> LearnerType, inviteCode |-> ""]
Pat == [email |-> "pat@x.io", username |-> "", password |-> "secret1",
        userType |-> MentorType, inviteCode |-> "x"]
StoreBodies == { Ann, Bob, Pat, [Bob EXCEPT !.password = ""] }

\* bodies of concurrent registrations: the email of Ann in other case, her
\* username in other case under another email, and a second mentor with the
\* code of the first
RaceBodies ==
    { Ann, Pat,
      [Bob EXCEPT !.email = "Ann@X.io"],
      [Bob EXCEPT !.email = "eve@x.io", !.username = "ANN"],
      [Pat EXCEPT !.email = "sam@x.io", !.inviteCode = "X"] }

\* what request k reads and writes
World(k) == [db |-> db, r |-> requests[k], history |-> history]

Commit(k, w) ==
    /\ db' = w.db
    /\ requests' = [requests EXCEPT ![k] = w.r]
    /\ history' = w.history
    /\ UNCHANGED <<openaiClient, claudeClient, nodeEnvDev, engine, call, http, upstream,
                   logged, pure, sessions, auth>>

\* the requests in flight of operation op
InFlight(op) == { j \in RequestIds : requests[j].op = op /\ requests[j].pc \notin {"idle", "done"} }

\* request k arrives: the handler runs up to `await pool.connect()` or to its reply
Call(k, op, user, args) ==
    /\ requests[k].pc \in {"idle", "done"}
    /\ Commit(k, handle([World(k) EXCEPT !.r = [IdleRequest EXCEPT !.op = op, !.pc = "entry",
                                                                  !.user = user,
                                                                  !.args = args]], TRUE))

Register(k, body) ==
    /\ Len(db.users) + Cardinality(InFlight("registerUser")) < MaxUsers
    /\ Call(k, "registerUser", Null, body)

Authenticated(user) == user \in 1..Len(db.users)

CreateInvitation(k, user, code) ==
    /\ Authenticated(user)
    /\ Call(k, "createInvitation", user, [code |-> code])

Unlink(k, user, target) ==
    /\ Authenticated(user)
    /\ Call(k, "unlink", user, [target |-> target])

ViewConversations(k, user, target) ==
    /\ Authenticated(user)
    /\ Call(k, "viewConversations", user, [target |-> target])

SaveConversation(k, user, messages) ==
    /\ Authenticated(user)
    /\ Len(db.conversations) + Cardinality(InFlight("saveConversation")) < MaxConversations
    /\ Call(k, "saveConversation", user, [messages |-> messages])

GetConversation(k, user, id) ==
    /\ Authenticated(user)
    /\ Call(k, "getConversation", user, [id |-> id])

UpdateConversation(k, user, id, messages) ==
    /\ Authenticated(user)
    /\ Call(k, "updateConversation", user, [id |-> id, messages |-> messages])

GetUserProfile(k, user) ==
    /\ Authenticated(user)
    /\ Call(k, "getUserProfile", user, << >>)

\* the pending query of request k answers (ok) or throws
Query(k, ok) ==
    /\ requests[k].pc \notin {"idle", "done"}
    /\ Commit(k, handle(World(k), ok))

-----------------------------------------------------------------------------
(* The pure functions applied to arguments *)

\* the mode arguments of selectOptimalModel: the closed set and values outside it
ModeArguments == LearningModes \cup {"", "student_answer", "Discovery", "constructor"}

\* the level arguments of getLearningPrompt: levels of either revision, and
\* values that are levels of neither
LevelArguments == {"beginner", "intermediate", "middle", "adult", "", "genius", "constructor"}

\* the arguments of an application, the functions applied so far and what they returned
NoPure ==
    [fn |-> "none", message |-> "", mode |-> "", hasOpenAI |-> FALSE, hasClaude |-> FALSE,
     subject |-> "", level |-> "",
     applied |-> {}, learningMode |-> "", intent |-> "", model |-> "", prompt |-> ""]

\* the two classifiers applied to a message, or the selector applied to a mode and two flags
Applications ==
    { [NoPure EXCEPT !.fn = "classify", !.message = m] : m \in Messages }
    \cup { [NoPure EXCEPT !.fn = "select", !.mode = md, !.hasOpenAI = o, !.hasClaude = c] :
              md \in ModeArguments, o \in BOOLEAN, c \in BOOLEAN }
    \cup { [NoPure EXCEPT !.fn = "prompt", !.mode = md, !.subject = sb, !.level = lv] :
              md \in ModeArguments, sb \in EngineSubjects, lv \in LevelArguments }

ApplyDetectLearningMode ==
    /\ pure.fn = "classify" /\ "detectLearningMode" \notin pure.applied
    /\ pure' = [pure EXCEPT !.applied = @ \cup {"detectLearningMode"},
                            !.learningMode = detectLearningMode(pure.message)]
    /\ UNCHANGED <<openaiClient, claudeClient, nodeEnvDev, engine, call, http, upstream, logged>>
    /\ UNCHANGED apartVars

ApplyDetectIntent ==
    /\ pure.fn = "classify" /\ "detectIntent" \notin pure.applied
    /\ pure' = [pure EXCEPT !.applied = @ \cup {"detectIntent"},
                            !.intent = detectIntent(pure.message)]
    /\ UNCHANGED <<openaiClient, claudeClient, nodeEnvDev, engine, call, http, upstream, logged>>
    /\ UNCHANGED apartVars

ApplySelectOptimalModel ==
    /\ pure.fn = "select" /\ "selectOptimalModel" \notin pure.applied
    /\ pure' = [pure EXCEPT !.applied = @ \cup {"selectOptimalModel"},
                            !.model = selectOptimalModel(pure.mode, pure.hasOpenAI,
                                                         pure.hasClaude)]
    /\ UNCHANGED <<openaiClient, claudeClient, nodeEnvDev, engine, call, http, upstream, logged>>
    /\ UNCHANGED apartVars

\* getLearningPrompt of the revision the behaviour starts with
ApplyGetLearningPrompt ==
    /\ pure.fn = "prompt" /\ "getLearningPrompt" \notin pure.applied
    /\ pure' = [pure EXCEPT !.applied = @ \cup {"getLearningPrompt"},
                            !.prompt = getLearningPrompt(engine, pure.mode, pure.subject,
                                                         pure.level)]
    /\ UNCHANGED <<openaiClient, claudeClient, nodeEnvDev, engine, call, http, upstream, logged>>
    /\ UNCHANGED apartVars

-----------------------------------------------------------------------------
(* The specification.  A behaviour is either one request to the engine or  *)
(* to a handler, with the provider clients and the environment fixed at    *)
(* start, or one application of a pure function.                           *)

InitRequest ==
    /\ openaiClient \in BOOLEAN
    /\ claudeClient \in BOOLEAN
    /\ nodeEnvDev \in BOOLEAN
    /\ engine \in {"v1", "v2"}
    /\ pure = NoPure

InitApplication ==
    /\ openaiClient = FALSE
    /\ claudeClient = FALSE
    /\ nodeEnvDev = FALSE
    /\ engine \in {"v1", "v2"}
    /\ pure \in Applications
    /\ pure.fn # "prompt" => engine = "v2"

\* auth.js is not called
NoAccounts ==
    /\ auth = "mentor"
    /\ db = EmptyDb
    /\ requests = [k \in RequestIds |-> IdleRequest]
    /\ history = NoHistory

Init ==
    /\ InitRequest \/ InitApplication
    /\ call = IdleCall
    /\ http = IdleHttp
    /\ upstream = <<>>
    /\ logged = {}
    /\ sessions = [k \in CallIds |-> IdleSession]
    /\ NoAccounts

Next ==
    \/ \E isString \in BOOLEAN, message \in EngineMessages,
          subject \in EngineSubjects, level \in EngineLevels,
          hasOpenAI \in BOOLEAN, hasClaude \in BOOLEAN :
          Invoke(isString, message, subject, level, hasOpenAI, hasClaude)
    \/ \E o \in Outcomes : UpstreamReplies(o)
    \/ \E kind \in MessageKinds, message \in EngineMessages,
          subject \in EngineSubjects, ageGroup \in EngineLevels,
          conversationHistory \in EngineHistories :
          TutorEngine(kind, message, subject, ageGroup, conversationHistory)
    \/ TutorEngineReplies
    \/ \E handler \in {"intent", "strict"}, kind \in MessageKinds,
          message \in TutorMessages, subject \in Subjects \cup {""},
          conversationHistory \in Histories :
          TutorIntent(handler, kind, message, subject, conversationHistory)
    \/ \E o \in Outcomes : TutorIntentReplies(o)
    \/ ApplyDetectLearningMode
    \/ ApplyDetectIntent
    \/ ApplySelectOptimalModel
    \/ ApplyGetLearningPrompt

Spec == Init /\ [][Next]_vars

\* Concurrent calls of processLearningInteraction: the module is loaded once,
\* and calls are made and resumed in any order.
InitConcurrent ==
    /\ InitRequest
    /\ ~nodeEnvDev
    /\ call = IdleCall
    /\ http = IdleHttp
    /\ upstream = <<>>
    /\ logged = {}
    /\ sessions = [k \in CallIds |-> IdleSession]
    /\ NoAccounts

NextConcurrent ==
    \/ \E k \in CallIds, message \in ConcurrentMessages : Begin(k, message, "middle")
    \/ \E k \in CallIds, o \in Outcomes : Settle(k, o)

SpecConcurrent == InitConcurrent /\ [][NextConcurrent]_vars

\* The handlers of auth.js on an empty database, one request at a time.
InitStore ==
    /\ openaiClient = FALSE
    /\ claudeClient = FALSE
    /\ nodeEnvDev = FALSE
    /\ pure = NoPure
    /\ engine = "v2"
    /\ call = IdleCall
    /\ http = IdleHttp
    /\ upstream = <<>>
    /\ logged = {}
    /\ sessions = [k \in CallIds |-> IdleSession]
    /\ auth \in AuthRevisions
    /\ db = EmptyDb
    /\ requests = [k \in RequestIds |-> IdleRequest]
    /\ history = NoHistory

UserIds == 1..MaxUsers

NextStore ==
    \/ \E body \in StoreBodies : Register(1, body)
    \/ \E user \in UserIds, code \in Codes : CreateInvitation(1, user, code)
    \/ \E user \in UserIds, target \in UserIds : Unlink(1, user, target)
    \/ \E user \in UserIds, target \in UserIds : ViewConversations(1, user, target)
    \/ \E user \in UserIds, messages \in MessageLists : SaveConversation(1, user, messages)
    \/ \E user \in UserIds, id \in 1..MaxConversations : GetConversation(1, user, id)
    \/ \E user \in UserIds, id \in 1..MaxConversations, messages \in MessageLists :
          UpdateConversation(1, user, id, messages)
    \/ \E user \in UserIds : GetUserProfile(1, user)
    \/ \E ok \in BOOLEAN : Query(1, ok)

SpecStore == InitStore /\ [][NextStore]_vars

\* Registrations and invitations of auth.js in flight together, each query
\* answered.
NextRace ==
    \/ \E k \in RequestIds, body \in RaceBodies : Register(k, body)
    \/ \E k \in RequestIds, user \in UserIds, code \in Codes : CreateInvitation(k, user, code)
    \/ \E k \in RequestIds : Query(k, TRUE)

SpecRace == InitStore /\ [][NextRace]_vars

-----------------------------------------------------------------------------
(* Properties of processLearningInteraction and of the handlers *)

Returned == call.pc = "returned"

Response == call.result.response

Metadata == call.result.metadata

Other(provider) == IF provider = "openai" THEN "claude" ELSE "openai"

RequestsTo(provider) == { i \in 1..Len(upstream) : upstream[i].provider = provider }

\* the adapter of the selected provider was called and gave up: each of its requests failed
SelectedProviderFailed ==
    /\ Returned
    /\ call.model \in Providers
    /\ RequestsTo(call.model) # {}
    /\ \A i \in RequestsTo(call.model) : upstream[i].outcome = "error"

BothAvailable == call.hasOpenAI /\ call.hasClaude /\ openaiClient /\ claudeClient

\* C1: when both providers are available and the selected provider has failed,
\* retry included, the other provider is invoked, and when that call succeeds
\* the response is the text of the other provider, not a canned response.
C1_FallsBackToOtherProvider ==
    (SelectedProviderFailed /\ BothAvailable) =>
        /\ RequestsTo(Other(call.model)) # {}
        /\ (\E i \in RequestsTo(Other(call.model)) : upstream[i].outcome = "text")
              => Response = ProviderText[Other(call.model)]

\* C2: a result whose response was written by a provider names that provider as
\* its model, and a result written by the provider that was not selected has no
\* error field.
C2_ModelNamesTheProvider ==
    \A p \in Providers :
        (Returned /\ Response = ProviderText[p]) =>
            /\ Metadata.model = p
            /\ (p # call.model => "error" \notin DOMAIN Metadata)

\* each provider call made by the invocation has failed, and there was one
AllProviderCallsFailed ==
    /\ call.settled = "rejected"
    /\ upstream # <<>>
    /\ \A i \in 1..Len(upstream) : upstream[i].outcome = "error"

\* C3: for a string message, when every provider call of the invocation fails,
\* the invocation returns normally with a non-empty response and a populated
\* metadata.error.
C3_TotalFailureReportsError ==
    (call.pc \in {"returned", "threw"} /\ call.isString /\ AllProviderCallsFailed) =>
        /\ Returned
        /\ Response # ""
        /\ "error" \in DOMAIN Metadata
        /\ Metadata.error # ""

\* C4: every result for a string message has a non-empty response and a model
\* that is one of openai, claude and fallback.
C4_ModelInClosedSet ==
    (Returned /\ call.isString) =>
        /\ Response # ""
        /\ Metadata.model \in {"openai", "claude", "fallback"}

HasProviderError(text) == \E e \in ProviderErrors : includes(text, e)

\* the texts of a payload with an optional metadata object
PayloadTexts(body) ==
    { body[f] : f \in DOMAIN body \ {"metadata"} }
        \cup (IF "metadata" \in DOMAIN body
              THEN { body.metadata[f] : f \in DOMAIN body.metadata }
              ELSE {})

\* C5: no payload returned to the user, HTTP body or interaction result, holds
\* text of a provider exception.
C5_NoProviderErrorInPayload ==
    /\ http.pc = "replied" => \A t \in PayloadTexts(http.body) : ~HasProviderError(t)
    /\ Returned => \A t \in PayloadTexts(call.result) : ~HasProviderError(t)

\* C6: with no provider configured, the engine handler answers a non-empty
\* message with the canned response of the classified mode in a body that has a
\* response field, and not with a 5xx status.
C6_NoProviderGivesCannedResponse ==
    ( /\ http.pc = "replied" /\ http.handler = "engine"
      /\ ~openaiClient /\ ~claudeClient
      /\ http.kind = "string" /\ http.message # "" ) =>
        /\ http.status < 500
        /\ "response" \in DOMAIN http.body
        /\ http.body.response = getFallbackResponse(detectLearningMode(http.message))

-----------------------------------------------------------------------------
(* Properties of the classifiers and of the model selector *)

Applied(fn) == fn \in pure.applied

\* C7: detectLearningMode maps every non-empty message to a mode of the closed
\* set, and the metadata.mode of every result of processLearningInteraction,
\* on every return path, is a mode of the closed set.
C7_ModeInClosedSet ==
    /\ (Applied("detectLearningMode") /\ pure.message # "")
          => pure.learningMode \in LearningModes
    /\ (call.pc # "idle" /\ call.isString /\ call.message # "")
          => call.mode \in LearningModes
    /\ Returned => Metadata.mode \in LearningModes

\* a non-empty message classified and answered with the canned response after a failure
C7_Witness ==
    /\ Returned
    /\ call.message = "contest"
    /\ call.mode = "challenge"
    /\ Metadata.mode = "challenge"
    /\ call.settled = "rejected"

\* the keyword groups of detectLearningMode in their order, with their modes
LearningModeOrder ==
    << [mode |-> "explanation", keywords |-> ExplanationKeywords],
       [mode |-> "practice", keywords |-> PracticeKeywords],
       [mode |-> "discovery", keywords |-> DiscoveryKeywords],
       [mode |-> "challenge", keywords |-> ChallengeKeywords],
       [mode |-> "review", keywords |-> ReviewKeywords] >>

ModeGroupMatches(i, message) ==
    includesAny(toLowerCase(message), LearningModeOrder[i].keywords)

\* the pattern groups of detectIntent in their order
IntentOrder == << "concept_explanation", "homework_help", "exploration" >>

IntentGroupMatches(i, message) ==
    CASE i = 1 -> conceptPatterns(toLowerCase(message))
      [] i = 2 -> homeworkPatterns(toLowerCase(message))
      [] i = 3 -> explorationPatterns(toLowerCase(message))

MatchesNoGroup(message) ==
    \A i \in 1..Len(LearningModeOrder) : ~ModeGroupMatches(i, message)

\* C9: a message that matches no keyword group, the empty string and white
\* space included, is classified as discovery.
C9_DefaultIsDiscovery ==
    (Applied("detectLearningMode") /\ MatchesNoGroup(pure.message))
        => pure.learningMode = "discovery"

\* the white-space message
C9_Witness ==
    /\ Applied("detectLearningMode")
    /\ pure.message = "  "
    /\ MatchesNoGroup(pure.message)
    /\ pure.learningMode = "discovery"

\* C10: selectOptimalModel answers none exactly when both flags are false, and
\* otherwise a provider whose flag is true, for modes inside and outside the
\* closed set.
C10_NeverSelectsUnavailable ==
    Applied("selectOptimalModel") =>
        /\ pure.model \in {"openai", "claude", "none"}
        /\ pure.model = "none" <=> (~pure.hasOpenAI /\ ~pure.hasClaude)
        /\ pure.model = "openai" => pure.hasOpenAI
        /\ pure.model = "claude" => pure.hasClaude

\* a mode whose preferred provider is unavailable
C10_Witness ==
    /\ Applied("selectOptimalModel")
    /\ pure.mode = "practice"
    /\ ~pure.hasOpenAI /\ pure.hasClaude
    /\ pure.model = "claude"

\* C11: with both providers available selectOptimalModel answers claude for
\* discovery and explanation, openai for practice, challenge and review, and
\* openai for every other mode value; the engine selects by the same table.
C11_ModeTable ==
    /\ (Applied("selectOptimalModel") /\ pure.hasOpenAI /\ pure.hasClaude) =>
          /\ pure.mode \in {"discovery", "explanation"} => pure.model = "claude"
          /\ pure.mode \in {"practice", "challenge", "review"} => pure.model = "openai"
          /\ pure.mode \notin LearningModes => pure.model = "openai"
    /\ (call.pc # "idle" /\ call.isString /\ call.hasOpenAI /\ call.hasClaude) =>
          /\ call.mode \in {"discovery", "explanation"} => call.model = "claude"
          /\ call.mode \in {"practice", "challenge", "review"} => call.model = "openai"

\* the selector applied to explanation with both providers available
C11_Witness ==
    /\ Applied("selectOptimalModel")
    /\ pure.hasOpenAI /\ pure.hasClaude
    /\ pure.mode = "explanation"
    /\ pure.model = "claude"

-----------------------------------------------------------------------------
(* Properties of the system prompts *)

\* the levels that getLearningPrompt of the revision has a text for
KnownLevels == IF engine = "v1" THEN DOMAIN levelContext ELSE DOMAIN ageContext

\* the text of the level that an unknown level falls back to
FallbackLevelText == IF engine = "v1" THEN levelContext.intermediate ELSE ageContext.middle

\* the handler that calls OpenAI itself has issued its request
PromptSelected == http.handler \in {"intent", "strict"} /\ upstream # <<>>

\* the system prompt of that request
SystemPrompt == upstream[1].messages[1].content

\* C12: prompt building never yields an empty prompt; getLearningPrompt uses
\* the discovery template for a mode outside the known modes and the
\* intermediate (middle) text for a level outside the known levels, and the
\* handlers use their generic prompt when their table has no entry.
C12_PromptNeverEmptyAndFallsBack ==
    /\ Applied("getLearningPrompt") =>
          /\ pure.prompt # ""
          /\ pure.mode \notin LearningModes =>
                includes(pure.prompt, "Use the Socratic method - ask guiding questions")
          /\ pure.level \notin KnownLevels => includes(pure.prompt, FallbackLevelText)
    /\ PromptSelected =>
          /\ SystemPrompt # ""
          /\ ( /\ http.handler = "strict"
               /\ Lookup3(STRICT_SOCRATIC_PROMPTS, http.intent, http.subject, http.level)
                     = Undefined ) => SystemPrompt = StrictFallbackPrompt
          /\ ( /\ http.handler = "intent"
               /\ Lookup3(INTENT_BASED_PROMPTS, http.intent, http.subject, http.level)
                     = Undefined
               /\ Lookup2(ADAPTIVE_SYSTEM_PROMPTS, http.subject, http.level) = Undefined )
                => SystemPrompt = GenericPrompt

\* the prompt has a rule that opens with the word never, in either spelling of
\* the tables: "Never give direct answers ...", "NEVER GIVE DIRECT ANSWERS ...",
\* "NEVER TELL THEM WHAT THE STORY MEANS", "Never write for them ..."
ForbidsDirectAnswers(prompt) == includes(prompt, "Never ") \/ includes(prompt, "NEVER ")

\* C13: the system prompt selected for a message classified as homework_help
\* forbids direct answers, for every subject and level, with or without a
\* table entry.
C13_HomeworkPromptForbidsAnswers ==
    (PromptSelected /\ http.intent = "homework_help") => ForbidsDirectAnswers(SystemPrompt)

\* C14: the strict handler classifies "What is 4+2?" with subject math as
\* homework_help at level elementary and selects the prompt of that entry,
\* which forbids stating the result.
C14_ArithmeticQuestionIsHomework ==
    ( /\ PromptSelected /\ http.handler = "strict"
      /\ http.message = "What is 4+2?" /\ http.subject = "math" ) =>
        /\ http.intent = "homework_help"
        /\ http.level = "elementary"
        /\ SystemPrompt = STRICT_SOCRATIC_PROMPTS["homework_help"]["math"]["elementary"]
        /\ ForbidsDirectAnswers(SystemPrompt)

\* the message is a number and nothing else, or its first word is yes, no,
\* true or false, in any case of the letters
IsBareNumber(message) == message # "" /\ \A i \in 1..Len(message) : IsDigitAt(message, i)

BeginsWithVerdict(message) ==
    \E k \in {"yes", "no", "true", "false"} : StartsWithWord(toLowerCase(message), k)

\* the prompt asks for a verdict on the answer only
AsksForVerdictOnly(prompt) ==
    includes(prompt, "\nOnly ") \/ includes(prompt, "only say if it's right or wrong")

\* the prompt forbids giving the correct answer
ForbidsCorrectAnswer(prompt) ==
    \E k \in {"NEVER give the correct", "NEVER provide the correct", "NEVER give direct answers"} :
        includes(prompt, k)

-----------------------------------------------------------------------------
(* Properties of the requests sent to the providers *)

\* the messages of upstream request i, the system prompt first whether the
\* provider takes it as a message or as a field of its own
SentMessages(i) ==
    IF upstream[i].system # Undefined
    THEN << [role |-> "system", content |-> upstream[i].system] >> \o upstream[i].messages
    ELSE upstream[i].messages

\* upstream request i carries the last min(KeepLast, length) messages of the
\* history of the tutoring request, in their order, between the system prompt
\* and the new user message, and nothing else
CarriesRecentHistory(i) ==
    LET h == http.conversationHistory
        n == IF Len(h) < KeepLast THEN Len(h) ELSE KeepLast
        m == SentMessages(i)
    IN  /\ Len(m) = n + 2
        /\ m[1].role = "system"
        /\ \A k \in 1..n : m[1 + k] = h[Len(h) - n + k]
        /\ m[n + 2] = [role |-> "user", content |-> http.message]

\* C16: every request sent to a provider for a tutoring request carries exactly
\* the last min(10, length) messages of the supplied conversation history, in
\* their order, after the system prompt and before the new user message.
C16_RecentHistoryIsSent ==
    http.handler # "none" => \A i \in 1..Len(upstream) : CarriesRecentHistory(i)

\* the prompt asks for an explanation, forbids nothing, and tells the model to
\* ask afterwards what the learner wants to do or explore next
PermitsExplanation(prompt) ==
    /\ includes(prompt, "xplain")
    /\ ~ForbidsDirectAnswers(prompt)

AsksWhatNext(prompt) ==
    \E k \in {"After explaining, ask what", "ask what they want to", "what they would like to do next"} :
        includes(prompt, k)

\* C17: the system prompt selected for a message classified as explanation,
\* concept_explanation in the intent-based handler and explanation in the
\* learning engine, permits direct explanation and tells the model to end by
\* asking the learner what to do or explore next.
C17_ExplanationEndsWithWhatNext ==
    /\ (PromptSelected /\ http.handler = "intent" /\ http.intent = "concept_explanation") =>
          PermitsExplanation(SystemPrompt) /\ AsksWhatNext(SystemPrompt)
    /\ (call.pc # "idle" /\ call.mode = "explanation") =>
          \A i \in 1..Len(upstream) :
              /\ PermitsExplanation(SentMessages(i)[1].content)
              /\ AsksWhatNext(SentMessages(i)[1].content)

-----------------------------------------------------------------------------
(* Properties of the order of the steps of processLearningInteraction *)

Calls == call.calls

CallsTo(provider) == { i \in 1..Len(Calls) : Calls[i].provider = provider }

\* the call returned what its last adapter call returned
Success == call.settled = "resolved" /\ Response = call.value

\* the call returned the canned response of the mode
Failed == Response = getFallbackResponse(call.mode)

\* what holds of a call on a string message in each of its states
StepsInOrder ==
    (call.pc # "idle" /\ call.isString) =>
        /\ call.pc \in {"awaiting", "returned"}
        /\ call.mode = detectLearningMode(call.message)
        /\ call.model = selectOptimalModel(call.mode, call.hasOpenAI, call.hasClaude)
        /\ Calls # <<>> => Calls[1].provider = call.model
        /\ \A p \in Providers : Cardinality(CallsTo(p)) <= 1
        /\ Len(Calls) >= 2 => Calls[1].settled = "rejected"
        /\ \A i \in 1..Len(upstream) : CallsTo(upstream[i].provider) # {}
        /\ call.pc = "awaiting" =>
              /\ Calls # <<>> /\ Calls[Len(Calls)].settled = "pending"
              /\ upstream # <<>> /\ upstream[Len(upstream)].outcome = "pending"
        /\ Returned =>
              /\ \A i \in 1..Len(Calls) : Calls[i].settled # "pending"
              /\ Success # Failed

\* a provider call that returns or fails either ends the call or is followed
\* by one more request, and a call that has returned stays as it is
StepsProgress ==
    /\ (call.pc = "awaiting" /\ call'.pc = "awaiting") =>
          /\ Len(upstream') = Len(upstream) + 1
          /\ upstream[Len(upstream)].outcome = "pending"
          /\ upstream'[Len(upstream)].outcome = "error"
    /\ Returned => call' = call /\ upstream' = upstream

\* C19: a call on a string message classifies, selects, calls the selected
\* provider first and the other provider only after that call has failed, calls
\* each adapter at most once, and ends in exactly one of success and failure:
\* each answer to its pending request ends the call or is followed by one more
\* request, of which there are at most three.
C19_StepsInOrder ==
    /\ [](StepsInOrder /\ Len(upstream) <= 3)
    /\ [][StepsProgress]_vars

\* the selected provider failed and the other provider answered
C19_Witness ==
    /\ Returned /\ call.isString
    /\ Len(Calls) = 2
    /\ Calls[1].provider = call.model /\ Calls[1].settled = "rejected"
    /\ Calls[2].settled = "resolved"
    /\ Success /\ Response = ProviderText[Other(call.model)]

-----------------------------------------------------------------------------
(* Properties of the retry of the provider adapters *)

\* request i went to the first model id of its provider and failed
PrimaryFailed(i) ==
    upstream[i].model # SecondaryModel(upstream[i].provider) /\ upstream[i].outcome = "error"

\* request j is the retry of request i
RetryOf(i, j) ==
    /\ j = i + 1 /\ j <= Len(upstream)
    /\ upstream[j].provider = upstream[i].provider
    /\ upstream[j].model = SecondaryModel(upstream[i].provider)

\* requests went to provider and then to the other provider
FellBackFrom(provider) ==
    /\ RequestsTo(provider) # {} /\ RequestsTo(Other(provider)) # {}
    /\ \A i \in RequestsTo(provider) : \A j \in RequestsTo(Other(provider)) : i < j

\* C20 as claimed: an adapter whose first request fails retries once against
\* the secondary model id, issues at most two requests, and the other provider
\* is called only after the retry has failed too.
C20_RetriesExactlyOnce ==
    call.pc # "idle" =>
        \A p \in Providers :
            /\ Cardinality(RequestsTo(p)) <= 2
            /\ \A i \in RequestsTo(p) : PrimaryFailed(i) => RetryOf(i, i + 1)
            /\ FellBackFrom(p) =>
                  /\ Cardinality(RequestsTo(p)) = 2
                  /\ \A i \in RequestsTo(p) : upstream[i].outcome = "error"

\* the adapter retries after the failure err of its first request
Retries(provider, err) ==
    \/ engine = "v1"
    \/ engine = "v2" /\ provider = "openai" /\ includes(err, "max_completion_tokens")

\* C20 amended: an adapter retries at most once against the secondary model id
\* of its provider; both adapters of the first revision do after every failure,
\* of the second revision only the OpenAI adapter does, and only after an
\* error that mentions max_completion_tokens.  An adapter issues at most two
\* requests, and the other provider is called only after the last request of
\* the adapter has failed.
C20_RetriesAtMostOnce ==
    call.pc # "idle" =>
        \A p \in Providers :
            /\ Cardinality(RequestsTo(p)) <= 2
            /\ \A i \in RequestsTo(p) :
                  PrimaryFailed(i) => (RetryOf(i, i + 1) <=> Retries(p, upstream[i].error))
            /\ \A i \in RequestsTo(p) :
                  upstream[i].model = SecondaryModel(p) =>
                      i > 1 /\ PrimaryFailed(i - 1) /\ upstream[i - 1].provider = p
            /\ FellBackFrom(p) =>
                  \A i \in RequestsTo(p) :
                      upstream[i].outcome = "error"

\* the Claude adapter of the second revision failed once, did not retry, and
\* the OpenAI adapter was called
C20_Witness ==
    /\ engine = "v2" /\ call.pc # "idle"
    /\ RequestsTo("claude") = {1}
    /\ PrimaryFailed(1)
    /\ FellBackFrom("claude")

-----------------------------------------------------------------------------
(* Properties of the providers that processLearningInteraction may reach *)

\* the availability flag the invocation was given for provider
Flag(provider) == IF provider = "openai" THEN call.hasOpenAI ELSE call.hasClaude

\* the client of provider was initialised when the module was loaded
Client(provider) == IF provider = "openai" THEN openaiClient ELSE claudeClient

\* C21: processLearningInteraction issues no upstream request, as the first
\* call or as the call of the other provider, to a provider whose availability
\* flag is false or whose client was not initialised.
C21_NoRequestToUnavailableProvider ==
    call.pc # "idle" =>
        \A i \in 1..Len(upstream) :
            Flag(upstream[i].provider) /\ Client(upstream[i].provider)

\* the selected provider failed and the other provider, whose flag is true and
\* whose client is missing, was called and threw before any request
C21_Witness ==
    /\ Returned /\ engine = "v2"
    /\ Len(Calls) = 2
    /\ Flag(Calls[2].provider) /\ ~Client(Calls[2].provider)
    /\ RequestsTo(Calls[2].provider) = {}
    /\ RequestsTo(Calls[1].provider) # {}

-----------------------------------------------------------------------------
(* Properties of the canned responses *)

\* processLearningInteraction returned a canned response for a classified message
ReturnedCanned == Returned /\ call.isString /\ call.producedBy = "canned"

\* C22: a canned response returned for a classified message is the canned text
\* registered for the mode the message was classified as, whichever providers
\* failed and whatever their errors were.
C22_CannedTextOfClassifiedMode ==
    ReturnedCanned =>
        /\ call.mode = detectLearningMode(call.message)
        /\ call.mode \in DOMAIN fallbacks
        /\ Response = fallbacks[detectLearningMode(call.message)]
        /\ ~HasProviderError(Response)

\* a message classified as practice, every request failed, canned response
C22_Witness ==
    /\ ReturnedCanned
    /\ call.mode = "practice"
    /\ upstream # <<>>
    /\ \A i \in 1..Len(upstream) : upstream[i].outcome = "error"

-----------------------------------------------------------------------------
(* Properties of concurrent calls of processLearningInteraction *)

\* the state before any call
Fresh == [call |-> IdleCall, upstream |-> <<>>, logged |-> {}]

\* the call with the inputs of c run alone: made, then resumed with the
\* outcomes outs in their order
RECURSIVE Alone(_, _)
Alone(c, outs) ==
    IF outs = <<>>
    THEN processLearningInteraction(Fresh, c.caller, c.isString, c.message, c.subject,
                                    c.level, c.hasOpenAI, c.hasClaude)
    ELSE resumeInteraction(Alone(c, SubSeq(outs, 1, Len(outs) - 1)), outs[Len(outs)])

\* each call made is where the same call run alone would be: same locals, same
\* result, same requests, and nothing logged that the shared console lacks
EachCallAsAlone ==
    \A k \in CallIds :
        sessions[k].call.pc # "idle" =>
            LET alone == Alone(sessions[k].call, sessions[k].outcomes)
            IN  /\ sessions[k].call = alone.call
                /\ sessions[k].upstream = alone.upstream
                /\ alone.logged \subseteq logged

\* a step changes the locals and the requests of one call at most
OneCallPerStep ==
    \A j, k \in CallIds :
        (sessions'[j] # sessions[j] /\ sessions'[k] # sessions[k]) => j = k

\* the clients, which the flags are computed from, stay as the module set them
ClientsFixed == openaiClient' = openaiClient /\ claudeClient' = claudeClient

\* C23: however concurrent processLearningInteraction calls interleave at
\* their await points, each call is at every point where the same call run
\* alone with the same inputs and the same provider outcomes would be, result
\* included; a step writes the state of one call only, and the provider
\* clients, and with them the availability flags, never change after the
\* module is initialised.
C23_CallsAreIndependent ==
    []EachCallAsAlone /\ [][OneCallPerStep /\ ClientsFixed]_vars

\* two calls of different modes are awaiting together, each after an outcome
\* of its own
C23_Witness ==
    /\ \A k \in {1, 2} : sessions[k].call.pc = "awaiting" /\ sessions[k].outcomes # <<>>
    /\ sessions[1].call.mode # sessions[2].call.mode

-----------------------------------------------------------------------------
(* Properties of the conversations *)

IsPrefix(s, t) == Len(s) <= Len(t) /\ SubSeq(t, 1, Len(s)) = s

\* C24: whatever saveConversation and updateConversation calls are made, no
\* conversation is removed from the store, and an update that changes the
\* messages of a conversation only appends: the messages stored before are a
\* prefix of the messages stored after.
C24_ConversationsOnlyGrow ==
    [][ /\ Len(db'.conversations) >= Len(db.conversations)
        /\ \A c \in 1..Len(db.conversations) :
              /\ db'.conversations[c].user_id = db.conversations[c].user_id
              /\ IsPrefix(db.conversations[c].messages, db'.conversations[c].messages) ]_vars

\* the request served, when it has been answered
Answer == requests[1]

Answered1(op) == Answer.pc = "done" /\ Answer.op = op

\* user holds a link to learner whose status is active
HoldsActiveLink(user, learner) ==
    \E l \in db.links : l.mentor = user /\ l.learner = learner /\ l.status = "active"

\* user may read the conversations of owner
MayRead(user, owner) == user = owner \/ HoldsActiveLink(user, owner)

\* the replies of the handlers that read conversations
ReadsAreAuthorised ==
    /\ Answered1("getConversation") /\ Answer.args.id \in 1..Len(db.conversations) =>
          LET owner == db.conversations[Answer.args.id].user_id
          IN  /\ Answer.status = 200 => MayRead(Answer.user, owner)
              /\ Answer.returned # {} => Answer.status = 200
              /\ (~MayRead(Answer.user, owner) /\ ~Answer.failed) =>
                    Answer.status \in {403, 404}
    /\ Answered1("viewConversations") =>
          /\ Answer.status = 200 => HoldsActiveLink(Answer.user, Answer.args.target)
          /\ Answer.returned # {} => Answer.status = 200
          /\ (~HoldsActiveLink(Answer.user, Answer.args.target) /\ ~Answer.failed) =>
                Answer.status = 403
    /\ ( /\ Answered1("updateConversation")
         /\ Answer.args.id \in 1..Len(db.conversations)
         /\ Answer.user # db.conversations[Answer.args.id].user_id
         /\ ~Answer.failed ) =>
              Answer.status \in {403, 404}

\* a step changes a stored conversation only in an updateConversation request
\* of its owner
OnlyOwnerUpdates ==
    \A c \in 1..Len(db.conversations) :
        db'.conversations[c] # db.conversations[c] =>
            /\ requests[1].op = "updateConversation"
            /\ requests[1].user = db.conversations[c].user_id

\* C25: after any sequence of register, save, invitation, link and unlink
\* operations, getConversation (and the list of a learner's conversations)
\* answers with content only for the owner or for a mentor whose link to the
\* owner is active, updateConversation changes a conversation only for its
\* owner, and any other requester is answered 403 or 404 and the conversation
\* stays as it was.
C25_OnlyOwnerOrLinkedMentor ==
    []ReadsAreAuthorised /\ [][OnlyOwnerUpdates]_vars

\* a mentor whose access the owner removed asks for the list of the owner's
\* conversation and is refused
C25_Witness ==
    /\ Answered1("viewConversations") /\ Answer.status = 403 /\ ~Answer.failed
    /\ <<Answer.args.target, Answer.user>> \in history.unlinked
    /\ db.conversations # <<>> /\ db.conversations[1].user_id = Answer.args.target

-----------------------------------------------------------------------------
(* Properties of concurrent registrations *)

\* the mentors that became linked by code
LinkedBy(code) == { a.mentor : a \in { b \in history.accepted : b.code = code } }

\* a link that has a mentor keeps it
MentorOfLinkStays ==
    \A l \in db.links :
        l.mentor # Null => \E m \in db'.links : m.code = l.code /\ m.mentor = l.mentor

\* the answered registrations of mentors
MentorRegistrations ==
    { k \in RequestIds : /\ requests[k].pc = "done" /\ requests[k].op = "registerUser"
                         /\ requests[k].args.userType = MentorType }

\* a registration that presents its code is answered 201, link or no link
RedemptionSucceeds ==
    \A k \in RequestIds :
        requests[k].pc = "redeem" /\ requests'[k].pc = "done" => requests'[k].status = 201

\* C26: however concurrent registrations of mentors (parents) that present
\* the same invitation code interleave, at most one of them becomes linked by
\* the code; a link that has a mentor takes no other mentor, and the
\* registrations that come later still succeed, without a link.
C26_OneMentorPerCode ==
    /\ [](\A code \in Codes : Cardinality(LinkedBy(code)) <= 1)
    /\ [][MentorOfLinkStays /\ RedemptionSucceeds]_vars

\* two mentors registered with the same code in flight together: the account
\* created second redeemed the code, the account created first found it used
C26_Witness ==
    /\ MentorRegistrations = {1, 2}
    /\ requests[1].status = 201 /\ requests[2].status = 201
    /\ \E a \in history.accepted :
          \E i \in 1..Len(db.users) :
              /\ i < a.mentor
              /\ db.users[i].user_type = MentorType
              /\ i \notin LinkedBy(a.code)

\* an account holds the email, compared without case
EmailHeld(email) == ExistsLower(db.users, "email", email)

\* the answered registrations that passed validation and created no account
RefusedRegistrations ==
    { k \in RequestIds : /\ requests[k].pc = "done" /\ requests[k].op = "registerUser"
                         /\ requests[k].acquired = 1 /\ requests[k].status # 201 }

\* no two accounts share an email or a username, compared without case
NoSharedEmailOrUsername ==
    \A u, v \in 1..Len(db.users) :
        u # v => /\ toLowerCase(db.users[u].email) # toLowerCase(db.users[v].email)
                 /\ \/ db.users[u].username = ""
                    \/ toLowerCase(db.users[u].username) # toLowerCase(db.users[v].username)

\* C27: a registerUser call for an email that an account already holds,
\* compared case-insensitively, is answered with 409, whether that account
\* was created before the call or by a call running concurrently.
C27_HeldEmailAnswered409 ==
    \A k \in RefusedRegistrations :
        EmailHeld(requests[k].args.email) => requests[k].status = 409

-----------------------------------------------------------------------------
(* Properties of the links *)

\* the learner removed the access of the mentor and the mentor redeemed no
\* invitation of the learner since
Unlinked(learner, mentor) == <<learner, mentor>> \in history.unlinked

\* C28: after a learner unlinks a mentor (unlinkMentor, unlinkParent), no
\* active link of the mentor to the learner exists, and every request of the
\* mentor for the conversations of the learner whose queries answer is
\* refused with 403, until the mentor redeems a new invitation of the learner.
C28_UnlinkedMentorRefused ==
    /\ \A learner, mentor \in UserIds :
          Unlinked(learner, mentor) => ~ActiveLink(db.links, mentor, learner)
    /\ Answered1("viewConversations") /\ ~Answer.failed
          /\ Unlinked(Answer.args.target, Answer.user)
       => Answer.status = 403 /\ Answer.returned = {}

\* a mentor asked for the conversations of the learner that unlinked them
C28_Witness ==
    /\ Answered1("viewConversations") /\ ~Answer.failed
    /\ Unlinked(Answer.args.target, Answer.user)
    /\ Answer.status = 403
    /\ db.conversations # <<>> /\ db.conversations[1].user_id = Answer.args.target

-----------------------------------------------------------------------------
(* Properties of the pooled clients *)

\* C29: on every path of every handler (success, validation failure, not
\* found, access denied, a query that throws) the client the handler took
\* from the pool is released exactly once before the handler has answered,
\* and never more often than it was taken.
C29_ClientReleasedOnce ==
    \A k \in RequestIds :
        /\ requests[k].released <= requests[k].acquired
        /\ requests[k].pc = "done" => requests[k].released = requests[k].acquired

\* C30: a mentor (parent) holds an accepted link to a learner (student) only
\* if that learner owned the link when the mentor redeemed its code: after any
\* sequence of createParentInvitation, registerUser and unlinkParent calls the
\* learner of an accepted link is the learner it had when it was accepted.
C30_AcceptedLinkKeepsLearner ==
    \A l \in db.links :
        l.mentor # Null =>
            [code |-> l.code, mentor |-> l.mentor, learner |-> l.learner] \in history.accepted

====
